---------------------------- MODULE Spec2Model ----------------------------
(***************************************************************************)
(* Authentication and session lifecycle of the todo server:                *)
(*   - RedisService (cache store with TTL) and SessionService on top of it *)
(*   - the JWT codec (access / refresh tokens)                             *)
(*   - the authenticate / authorize / requireRole / requirePermissions     *)
(*     middlewares                                                         *)
(*   - the error handler, POST /refresh, the rate limiter and the Redis    *)
(*     client's cache calls and reconnection                               *)
(* The specifications share the module's variables: SessionSpec drives the *)
(* session registry, Spec the gates; each of the others drives one part.   *)
(***************************************************************************)
EXTENDS Integers, Sequences, FiniteSets, TLC

VARIABLES
  now,        \* wall clock, in seconds
  redis,      \* the cache store: key -> [val, exp], live keys only
  redisReady, \* whether the backend answers (client commands reject otherwise)
  usedIds,    \* session ids uuidv4() has already produced
  ret,        \* the last SessionService call and what it returned
  created,    \* per user, the session ids createSession returned for that user
  disturbed,  \* some deletion, expiry step or backend outage has happened
  users,      \* the user store: principal id -> role, or NoUser once deleted
  deletedAt,  \* when a principal was deleted from the user store (Never: it exists)
  out,        \* the last gate invocation and what it did to req / res / next
  inflight,   \* two requests in flight at once: the request and each one's progress
  probe       \* the last call of a function on its own: its arguments and result

sessionVars == <<redis, redisReady, usedIds, ret, created, disturbed>>
gateVars == <<users, deletedAt, out>>
vars == <<now, redis, redisReady, usedIds, ret, created, disturbed, users,
          deletedAt, out, inflight, probe>>

-----------------------------------------------------------------------------
(* Bounds of the model *)

\* how many clock steps a behaviour takes
MaxTicks == 3

\* how many session ids uuidv4() hands out
MaxSessions == 2

\* how many times tokens are minted for a user before they are presented
MaxMints == 2

\* how long a list of required permissions gets
MaxPermissions == 2

\* how many requests of one client are counted in one window
MaxCounted == 7

\* how many times the connection to the backend is lost
MaxOutages == 3

\* how many requests of the client wait on one another
MaxDepth == 5

\* how many todos are created
MaxTodos == 2

UserIds == {"u1", "u2"}

\* session ids: the ones uuidv4() hands out, in order, and one it never does
SessionIds == 1 .. (MaxSessions + 1)

NoSession == 0

\* deletedAt of a principal that is still in the user store
Never == -1

\* no middleware is running
NoGate == [gate |-> "none"]

\* no pair of concurrent requests is in flight
NoRace == [route |-> "none"]

\* the requests that can be in flight at once
Procs == {1, 2}

\* no function has been called yet
NoProbe == [fn |-> "none"]

-----------------------------------------------------------------------------
(* RedisService: src/unnamed/part_004 *)

SESSION_PREFIX == "session:"

USER_SESSIONS_PREFIX == "user_sessions:"

SESSION_TTL == 7 * 24 * 60 * 60

\* getSessionKey / getUserSessionsKey: prefix + id
getSessionKey(sessionId) == <<SESSION_PREFIX, sessionId>>

getUserSessionsKey(userId) == <<USER_SESSIONS_PREFIX, userId>>

\* what get() resolves to: null (a missing key, a backend error) or the parsed
\* value; callers test it for truthiness
Null == [hit |-> FALSE]

Some(value) == [hit |-> TRUE, val |-> value]

\* RedisService.set with expireInSeconds: setEx; a backend error is swallowed
\* and leaves the store as it was
RedisSet(store, ready, key, value, expireInSeconds, t) ==
  IF ready
    THEN [k \in (DOMAIN store) \cup {key} |->
            IF k = key THEN [val |-> value, exp |-> t + expireInSeconds]
                       ELSE store[k]]
    ELSE store

\* RedisService.get: null for a missing key and on a backend error
RedisGet(store, ready, key) ==
  IF ready /\ key \in DOMAIN store THEN Some(store[key].val) ELSE Null

\* RedisService.del: a backend error is swallowed
RedisDel(store, ready, key) ==
  IF ready
    THEN [k \in (DOMAIN store) \ {key} |-> store[k]]
    ELSE store

\* RedisService.increment, one await at a time.  At pc "incr" it awaits
\* client.incr (a new key has no time to live yet: exp = Never); with a count
\* of 1 and an expireInSeconds it goes on to await client.expire, at pc
\* "expire".  A backend error at either await is logged and thrown on.
increment(pc, count, store, ready, key, expireInSeconds, t) ==
  IF ~ready THEN [pc |-> "threw", count |-> 0, store |-> store]
  ELSE IF pc = "expire"
    THEN [pc |-> "returned", count |-> count,
          store |-> IF key \in DOMAIN store
                      THEN [store EXCEPT ![key].exp = t + expireInSeconds]
                      ELSE store]
  ELSE LET c == IF key \in DOMAIN store THEN store[key].val + 1 ELSE 1
           incremented ==
             [k \in (DOMAIN store) \cup {key} |->
                IF k # key THEN store[k]
                ELSE [val |-> c,
                      exp |-> IF key \in DOMAIN store THEN store[key].exp ELSE Never]]
       IN  [pc |-> IF expireInSeconds # 0 /\ c = 1 THEN "expire" ELSE "returned",
            count |-> c, store |-> incremented]

\* the backend drops every key whose time to live has run out
Purge(store, t) ==
  [k \in {x \in DOMAIN store : store[x].exp = Never \/ store[x].exp > t} |->
     store[k]]

-----------------------------------------------------------------------------
(* SessionService: src/server/src/services/sessionService.ts *)

SessionRoles == {"user", "admin"}

\* Date.now(): milliseconds
DateNow(t) == t * 1000

\* what a handler hands on: the store it leaves and the value it resolves to
Done(store, value) == [store |-> store, value |-> value]

\* createSession: the record is written, then the user's list is SET to
\* [sessionId]; both with SESSION_TTL
createSession(store, ready, sessionId, sessionData, t) ==
  LET sessionKey == getSessionKey(sessionId)
      userSessionsKey == getUserSessionsKey(sessionData.userId)
      fullSessionData == [userId |-> sessionData.userId,
                          role |-> sessionData.role,
                          loginTime |-> DateNow(t),
                          lastActivity |-> DateNow(t)]
      s1 == RedisSet(store, ready, sessionKey, fullSessionData, SESSION_TTL, t)
      s2 == RedisSet(s1, ready, userSessionsKey, <<sessionId>>, SESSION_TTL, t)
  IN  Done(s2, sessionId)

\* variant: a hit bumps lastActivity in the returned record only, the stored
\* record and its time to live are left alone
getSessionWithoutRewrite(store, ready, sessionId, t) ==
  LET sessionKey == getSessionKey(sessionId)
      sessionData == RedisGet(store, ready, sessionKey)
  IN  IF sessionData.hit
        THEN Done(store, Some([sessionData.val EXCEPT !.lastActivity = DateNow(t)]))
        ELSE Done(store, Null)

\* getSession: on a hit lastActivity is bumped and the record rewritten with a
\* fresh SESSION_TTL
getSession(store, ready, sessionId, t) ==
  LET sessionKey == getSessionKey(sessionId)
      sessionData == RedisGet(store, ready, sessionKey)
  IN  IF sessionData.hit
        THEN LET bumped == [sessionData.val EXCEPT !.lastActivity = DateNow(t)]
             IN  Done(RedisSet(store, ready, sessionKey, bumped, SESSION_TTL, t),
                      Some(bumped))
        ELSE Done(store, Null)

\* { ...existingData, ...updates, lastActivity: Date.now() }
Merge(existingData, updates, t) ==
  [f \in DOMAIN existingData |->
     IF f = "lastActivity" THEN DateNow(t)
     ELSE IF f \in DOMAIN updates THEN updates[f]
     ELSE existingData[f]]

\* updateSession: merges into an existing record, no-op on a miss
updateSession(store, ready, sessionId, updates, t) ==
  LET sessionKey == getSessionKey(sessionId)
      existingData == RedisGet(store, ready, sessionKey)
  IN  IF existingData.hit
        THEN Done(RedisSet(store, ready, sessionKey,
                           Merge(existingData.val, updates, t), SESSION_TTL, t),
                  Null)
        ELSE Done(store, Null)

\* userSessions.filter(id => id !== sessionId)
RECURSIVE Filter(_, _)
Filter(ids, sessionId) ==
  IF ids = <<>> THEN <<>>
  ELSE IF Head(ids) = sessionId THEN Filter(Tail(ids), sessionId)
  ELSE <<Head(ids)>> \o Filter(Tail(ids), sessionId)

\* get(key) || []
OrEmpty(got) == IF got.hit THEN got.val ELSE <<>>

\* deleteSession: prunes the id from the owner's list (rewritten with a fresh
\* SESSION_TTL, or deleted when it becomes empty), then deletes the record
deleteSession(store, ready, sessionId, t) ==
  LET sessionKey == getSessionKey(sessionId)
      sessionData == RedisGet(store, ready, sessionKey)
      s1 == IF sessionData.hit
              THEN LET userSessionsKey == getUserSessionsKey(sessionData.val.userId)
                       userSessions == OrEmpty(RedisGet(store, ready, userSessionsKey))
                       updatedSessions == Filter(userSessions, sessionId)
                   IN  IF Len(updatedSessions) > 0
                         THEN RedisSet(store, ready, userSessionsKey,
                                       updatedSessions, SESSION_TTL, t)
                         ELSE RedisDel(store, ready, userSessionsKey)
              ELSE store
  IN  Done(RedisDel(s1, ready, sessionKey), Null)

\* the loop of getUserSessions: each id goes through getSession, misses are
\* dropped
RECURSIVE ResolveAll(_, _, _, _, _)
ResolveAll(store, ready, sessionIds, sessions, t) ==
  IF sessionIds = <<>> THEN Done(store, sessions)
  ELSE LET got == getSession(store, ready, Head(sessionIds), t)
       IN  ResolveAll(got.store, ready, Tail(sessionIds),
                      IF got.value.hit THEN Append(sessions, got.value.val)
                                       ELSE sessions,
                      t)

getUserSessions(store, ready, userId, t) ==
  LET userSessionsKey == getUserSessionsKey(userId)
      sessionIds == OrEmpty(RedisGet(store, ready, userSessionsKey))
  IN  ResolveAll(store, ready, sessionIds, <<>>, t)

\* the loop of logoutAllDevices: del(session:{id}) for each listed id
RECURSIVE DelAll(_, _, _)
DelAll(store, ready, sessionIds) ==
  IF sessionIds = <<>> THEN store
  ELSE DelAll(RedisDel(store, ready, getSessionKey(Head(sessionIds))),
              ready, Tail(sessionIds))

\* logoutAllDevices: deletes the listed sessions, then the list
logoutAllDevices(store, ready, userId) ==
  LET userSessionsKey == getUserSessionsKey(userId)
      sessionIds == OrEmpty(RedisGet(store, ready, userSessionsKey))
      s1 == DelAll(store, ready, sessionIds)
  IN  Done(RedisDel(s1, ready, userSessionsKey), Null)

-----------------------------------------------------------------------------
(* The session registry as a state machine *)

\* the clock advances in steps of half a session lifetime
ClockStep == SESSION_TTL \div 2

NoCall == [op |-> "none", userId |-> "", sessionId |-> NoSession, hit |-> FALSE,
           sessions |-> <<>>, ready |-> TRUE]

Call(op, userId, sessionId, hit, sessions) ==
  [op |-> op, userId |-> userId, sessionId |-> sessionId, hit |-> hit,
   sessions |-> sessions, ready |-> redisReady]

CreateSession(userId, role) ==
  /\ Cardinality(usedIds) < MaxSessions
  /\ \E sessionId \in {Cardinality(usedIds) + 1} :
       LET r == createSession(redis, redisReady, sessionId,
                              [userId |-> userId, role |-> role], now)
       IN  /\ redis' = r.store
           /\ usedIds' = usedIds \cup {sessionId}
           /\ created' = [created EXCEPT ![userId] = @ \cup {sessionId}]
           /\ ret' = Call("createSession", userId, r.value, FALSE, <<>>)
  /\ UNCHANGED <<now, redisReady, disturbed, gateVars, inflight, probe>>

GetSession(sessionId) ==
  LET r == getSession(redis, redisReady, sessionId, now)
  IN  /\ redis' = r.store
      /\ ret' = Call("getSession", "", sessionId, r.value.hit,
                     IF r.value.hit THEN <<r.value.val>> ELSE <<>>)
      /\ UNCHANGED <<now, redisReady, usedIds, created, disturbed, gateVars, inflight, probe>>

UpdateSession(sessionId, updates) ==
  LET r == updateSession(redis, redisReady, sessionId, updates, now)
  IN  /\ redis' = r.store
      /\ ret' = Call("updateSession", "", sessionId, FALSE, <<>>)
      /\ UNCHANGED <<now, redisReady, usedIds, created, disturbed, gateVars, inflight, probe>>

DeleteSession(sessionId) ==
  LET r == deleteSession(redis, redisReady, sessionId, now)
  IN  /\ redis' = r.store
      /\ ret' = Call("deleteSession", "", sessionId, FALSE, <<>>)
      /\ disturbed' = TRUE
      /\ UNCHANGED <<now, redisReady, usedIds, created, gateVars, inflight, probe>>

GetUserSessions(userId) ==
  LET r == getUserSessions(redis, redisReady, userId, now)
  IN  /\ redis' = r.store
      /\ ret' = Call("getUserSessions", userId, NoSession, FALSE, r.value)
      /\ UNCHANGED <<now, redisReady, usedIds, created, disturbed, gateVars, inflight, probe>>

LogoutAllDevices(userId) ==
  LET r == logoutAllDevices(redis, redisReady, userId)
  IN  /\ redis' = r.store
      /\ ret' = Call("logoutAllDevices", userId, NoSession, FALSE, <<>>)
      /\ disturbed' = TRUE
      /\ UNCHANGED <<now, redisReady, usedIds, created, gateVars, inflight, probe>>

\* time passes; keys whose TTL has run out are gone
SessionTick ==
  /\ now < MaxTicks * ClockStep
  /\ now' = now + ClockStep
  /\ redis' = Purge(redis, now')
  /\ disturbed' = TRUE
  /\ ret' = NoCall
  /\ UNCHANGED <<redisReady, usedIds, created, gateVars, inflight, probe>>

\* the client's "error" / "disconnect" and "connect" events
RedisError ==
  /\ redisReady
  /\ redisReady' = FALSE
  /\ disturbed' = TRUE
  /\ ret' = NoCall
  /\ UNCHANGED <<now, redis, usedIds, created, gateVars, inflight, probe>>

RedisConnect ==
  /\ ~redisReady
  /\ redisReady' = TRUE
  /\ ret' = NoCall
  /\ UNCHANGED <<now, redis, usedIds, created, disturbed, gateVars, inflight, probe>>

SessionInit ==
  /\ now = 0
  /\ redis = <<>>
  /\ redisReady = TRUE
  /\ usedIds = {}
  /\ ret = NoCall
  /\ created = [u \in UserIds |-> {}]
  /\ disturbed = FALSE
  /\ inflight = NoRace
  /\ probe = NoProbe
  /\ users = [u \in UserIds |-> "user"]
  /\ deletedAt = [u \in UserIds |-> Never]
  /\ out = NoGate

SessionNext ==
  \/ \E u \in UserIds, r \in SessionRoles : CreateSession(u, r)
  \/ \E s \in SessionIds : GetSession(s)
  \/ \E s \in SessionIds, up \in {[role |-> r] : r \in SessionRoles} \cup {[lastActivity |-> 0]} : UpdateSession(s, up)
  \/ \E s \in SessionIds : DeleteSession(s)
  \/ \E u \in UserIds : GetUserSessions(u)
  \/ \E u \in UserIds : LogoutAllDevices(u)
  \/ SessionTick
  \/ RedisError
  \/ RedisConnect

SessionSpec == SessionInit /\ [][SessionNext]_vars

-----------------------------------------------------------------------------
(* SessionService with its calls interleaved: every await RedisService.get /  *)
(* set / del is a step of its own, and the steps of the calls in flight mix.  *)
(* A call is [op, pc, userId, sessionId, data, ids]: data is what it read (or *)
(* is about to write), ids the session ids it still has to go through.        *)

NoSessionCall ==
  [op |-> "idle", pc |-> "idle", userId |-> "", sessionId |-> NoSession,
   data |-> Null, ids |-> <<>>]

\* one await of a call of SessionService: the call after it, the store after
\* it, and the ids whose session:{id} it deleted
SessionServiceAwait(p, store, ready, t) ==
  LET sessionKey == getSessionKey(p.sessionId)
      userSessionsKey == getUserSessionsKey(p.userId)
      at(pc) == [p EXCEPT !.pc = pc]
      end == [p |-> NoSessionCall, store |-> store, deleted |-> {}]
      read == RedisGet(store, ready, sessionKey)
      listed == OrEmpty(RedisGet(store, ready, userSessionsKey))
      rest == Tail(p.ids)
  IN  CASE p.pc = "set record" ->
             \* createSession: RedisService.set(sessionKey, fullSessionData, ...)
             [end EXCEPT !.p = at("set index"),
                         !.store = RedisSet(store, ready, sessionKey, p.data.val,
                                            SESSION_TTL, t)]
        [] p.pc = "set index" ->
             \* createSession: RedisService.set(userSessionsKey, [sessionId], ...)
             [end EXCEPT !.store = RedisSet(store, ready, userSessionsKey,
                                            <<p.sessionId>>, SESSION_TTL, t)]
        [] p.pc = "get" /\ p.op = "getSession" ->
             IF read.hit
               THEN [end EXCEPT !.p = [at("set") EXCEPT !.data =
                       Some([read.val EXCEPT !.lastActivity = DateNow(t)])]]
               ELSE end
        [] p.pc = "get index" /\ p.op = "getUserSessions" ->
             IF listed = <<>> THEN end
             ELSE [end EXCEPT !.p = [at("get") EXCEPT !.ids = listed,
                                                      !.sessionId = Head(listed)]]
        [] p.pc = "get" /\ p.op = "getUserSessions" ->
             \* the loop's getSession(sessionId)
             IF read.hit
               THEN [end EXCEPT !.p = [at("set") EXCEPT !.data =
                       Some([read.val EXCEPT !.lastActivity = DateNow(t)])]]
               ELSE IF rest = <<>> THEN end
               ELSE [end EXCEPT !.p = [at("get") EXCEPT !.ids = rest,
                                                        !.sessionId = Head(rest)]]
        [] p.pc = "set" /\ p.op = "getUserSessions" ->
             [end EXCEPT !.p = IF rest = <<>> THEN NoSessionCall
                               ELSE [at("get") EXCEPT !.ids = rest, !.data = Null,
                                                      !.sessionId = Head(rest)],
                         !.store = RedisSet(store, ready, sessionKey, p.data.val,
                                            SESSION_TTL, t)]
        [] p.pc = "get" /\ p.op = "updateSession" ->
             IF read.hit
               THEN [end EXCEPT !.p = [at("set") EXCEPT !.data =
                       Some(Merge(read.val, [role |-> "admin"], t))]]
               ELSE end
        [] p.pc = "set" ->
             \* getSession, updateSession: the write-back of what was read
             [end EXCEPT !.store = RedisSet(store, ready, sessionKey, p.data.val,
                                            SESSION_TTL, t)]
        [] p.pc = "get" /\ p.op = "deleteSession" ->
             IF read.hit
               THEN [end EXCEPT !.p = [at("get index") EXCEPT
                                         !.userId = read.val.userId]]
               ELSE [end EXCEPT !.p = at("del record")]
        [] p.pc = "get index" /\ p.op = "deleteSession" ->
             [end EXCEPT !.p = [at("put index") EXCEPT
                                  !.ids = Filter(listed, p.sessionId)]]
        [] p.pc = "put index" ->
             [end EXCEPT !.p = at("del record"),
                         !.store = IF Len(p.ids) > 0
                                     THEN RedisSet(store, ready, userSessionsKey,
                                                   p.ids, SESSION_TTL, t)
                                     ELSE RedisDel(store, ready, userSessionsKey)]
        [] p.pc = "del record" ->
             [end EXCEPT !.store = RedisDel(store, ready, sessionKey),
                         !.deleted = {p.sessionId}]
        [] p.pc = "get index" /\ p.op = "logoutAllDevices" ->
             [end EXCEPT !.p = [at(IF listed = <<>> THEN "del index" ELSE "del")
                                  EXCEPT !.ids = listed]]
        [] p.pc = "del" ->
             \* logoutAllDevices: the loop's RedisService.del(sessionKey)
             [end EXCEPT !.p = [at(IF rest = <<>> THEN "del index" ELSE "del")
                                  EXCEPT !.ids = rest],
                         !.store = RedisDel(store, ready, getSessionKey(Head(p.ids))),
                         !.deleted = {Head(p.ids)}]
        [] p.pc = "del index" ->
             [end EXCEPT !.store = RedisDel(store, ready, userSessionsKey)]

\* a call of SessionService begins: it runs up to its first await; a session
\* id is known to callers once its createSession has returned
SessionServiceCall(i, op, userId, sessionId) ==
  /\ inflight # NoRace => inflight.route = "sessions" /\ inflight.p[i].op = "idle"
  /\ IF op = "createSession"
       THEN Cardinality(usedIds) < MaxSessions /\ sessionId = Cardinality(usedIds) + 1
       ELSE IF op \in {"getUserSessions", "logoutAllDevices"} THEN sessionId = NoSession
       ELSE /\ userId = ""
            /\ sessionId \in usedIds
            /\ \A j \in Procs : inflight.p[j].op = "createSession"
                                  => inflight.p[j].sessionId # sessionId
  /\ usedIds' = IF op = "createSession" THEN usedIds \cup {sessionId} ELSE usedIds
  /\ inflight' =
       [route |-> "sessions",
        p |-> [j \in Procs |->
                 IF j # i
                   THEN IF inflight = NoRace THEN NoSessionCall ELSE inflight.p[j]
                   ELSE [op |-> op, userId |-> userId, sessionId |-> sessionId,
                         ids |-> <<>>,
                         pc |-> CASE op = "createSession" -> "set record"
                                  [] op \in {"getUserSessions", "logoutAllDevices"} ->
                                       "get index"
                                  [] OTHER -> "get",
                         data |-> IF op = "createSession"
                                    THEN Some([userId |-> userId, role |-> "user",
                                               loginTime |-> DateNow(now),
                                               lastActivity |-> DateNow(now)])
                                    ELSE Null]]]
  /\ probe' = IF probe = NoProbe THEN [fn |-> "sessions", deleted |-> {}] ELSE probe
  /\ UNCHANGED <<now, redis, redisReady, ret, created, disturbed, gateVars>>

\* the await a call in flight is waiting at completes
SessionServiceResume(i) ==
  /\ inflight # NoRace
  /\ inflight.route = "sessions"
  /\ inflight.p[i].op # "idle"
  /\ LET r == SessionServiceAwait(inflight.p[i], redis, redisReady, now)
     IN  /\ redis' = r.store
         /\ inflight' = [inflight EXCEPT !.p[i] = r.p]
         /\ probe' = [probe EXCEPT !.deleted = @ \cup r.deleted]
  /\ UNCHANGED <<now, redisReady, usedIds, ret, created, disturbed, gateVars>>

\* the calls of SessionService in flight together, the store available; a
\* call takes far less than the clock's step of half a session lifetime
SessionRaceSpec ==
  /\ SessionInit
  /\ [][
       \/ \E i \in Procs :
            SessionServiceCall(i, "createSession", "u1", Cardinality(usedIds) + 1)
       \/ \E i \in Procs, op \in {"getUserSessions", "logoutAllDevices"} :
            SessionServiceCall(i, op, "u1", NoSession)
       \/ \E i \in Procs, s \in SessionIds,
             op \in {"getSession", "updateSession", "deleteSession"} :
            SessionServiceCall(i, op, "", s)
       \/ \E i \in Procs : SessionServiceResume(i)
       \/ /\ IF inflight = NoRace THEN TRUE
             ELSE \A i \in Procs : inflight.p[i].op = "idle"
          /\ SessionTick
     ]_vars

-----------------------------------------------------------------------------
(* Roles and permissions: src/server/src/utils/roles.ts *)

UserRole == {"user", "moderator", "admin", "super_admin"}

USER_PERMISSIONS ==
  {"read_own_profile", "update_own_profile", "create_todo", "read_own_todos",
   "update_own_todos", "delete_own_todos"}

MODERATOR_PERMISSIONS ==
  USER_PERMISSIONS \cup {"read_all_todos", "delete_any_todo", "moderate_content"}

\* variant: the admin list written out on its own, without moderate_content
ADMIN_PERMISSIONS_WrittenOut ==
  USER_PERMISSIONS \cup
    {"read_all_todos", "delete_any_todo",
     "read_all_users", "update_user_roles", "delete_users",
     "manage_system_settings"}

\* [...MODERATOR_PERMISSIONS, admin permissions]
ADMIN_PERMISSIONS ==
  MODERATOR_PERMISSIONS \cup
    {"read_all_users", "update_user_roles", "delete_users",
     "manage_system_settings"}

SUPER_ADMIN_PERMISSIONS ==
  ADMIN_PERMISSIONS \cup {"manage_admins", "system_maintenance", "access_logs"}

\* enum Permission
Permission ==
  {"read_own_profile", "update_own_profile", "create_todo", "read_own_todos",
   "update_own_todos", "delete_own_todos",
   "read_all_todos", "delete_any_todo", "moderate_content",
   "read_all_users", "update_user_roles", "delete_users",
   "manage_system_settings",
   "manage_admins", "system_maintenance", "access_logs"}

ROLE_PERMISSIONS ==
  [r \in UserRole |->
     CASE r = "user" -> USER_PERMISSIONS
       [] r = "moderator" -> MODERATOR_PERMISSIONS
       [] r = "admin" -> ADMIN_PERMISSIONS
       [] r = "super_admin" -> SUPER_ADMIN_PERMISSIONS]

ROLE_HIERARCHY ==
  [r \in UserRole |->
     CASE r = "user" -> 1
       [] r = "moderator" -> 2
       [] r = "admin" -> 3
       [] r = "super_admin" -> 4]

hasPermission(userRole, permission) == permission \in ROLE_PERMISSIONS[userRole]

hasRole(userRole, requiredRole) ==
  ROLE_HIERARCHY[userRole] >= ROLE_HIERARCHY[requiredRole]

\* requiredPermissions.every(...)
canAccessResource(userRole, requiredPermissions) ==
  \A i \in 1 .. Len(requiredPermissions) :
    hasPermission(userRole, requiredPermissions[i])

\* the permission lists a route can be guarded with, up to MaxPermissions long
RECURSIVE PermissionListsUpTo(_)
PermissionListsUpTo(n) ==
  IF n = 0 THEN {<<>>}
  ELSE LET shorter == PermissionListsUpTo(n - 1)
       IN  shorter \cup {Append(ps, perm) : ps \in shorter, perm \in Permission}

\* one call of hasRole, hasPermission or canAccessResource, with its result
CheckRole(userRole, requiredRole) ==
  /\ probe = NoProbe
  /\ probe' = [fn |-> "hasRole", userRole |-> userRole,
                requiredRole |-> requiredRole,
                result |-> hasRole(userRole, requiredRole)]
  /\ UNCHANGED <<now, sessionVars, gateVars, inflight>>

CheckPermission(userRole, permission) ==
  /\ probe = NoProbe
  /\ probe' = [fn |-> "hasPermission", userRole |-> userRole,
                permission |-> permission,
                result |-> hasPermission(userRole, permission)]
  /\ UNCHANGED <<now, sessionVars, gateVars, inflight>>

CheckAccess(userRole, requiredPermissions) ==
  /\ probe = NoProbe
  /\ probe' = [fn |-> "canAccessResource", userRole |-> userRole,
                requiredPermissions |-> requiredPermissions,
                result |-> canAccessResource(userRole, requiredPermissions)]
  /\ UNCHANGED <<now, sessionVars, gateVars, inflight>>

-----------------------------------------------------------------------------
(* The token codec: src/unnamed/part_012 *)

\* process.env.JWT_SECRET and process.env.JWT_REFRESH_SECRET: two different
\* secrets, as the deployment documents configure them
ACCESS_SECRET == "JWT_SECRET"

REFRESH_SECRET == "JWT_REFRESH_SECRET"

\* expiresIn: "15m" and "7d", in seconds
AccessLifetime == 15 * 60

RefreshLifetime == 7 * 24 * 60 * 60

\* a value that is not there: a missing cookie, header, body field, req.userId
NoUserId == "undefined"

Undefined == [sig |-> "undefined", userId |-> NoUserId, iat |-> 0, exp |-> 0]

\* a string that is no JWT at all
Malformed == [sig |-> "malformed", userId |-> NoUserId, iat |-> 0, exp |-> 0]

\* JavaScript truthiness of a token-valued expression
Truthy(token) == token # Undefined

\* jwt.sign(payload, secret, {expiresIn}): the token carries the payload, iat
\* and exp = iat + lifetime, under a signature made with secret
jwtSign(payload, secret, lifetime, t) ==
  [sig |-> secret, userId |-> payload.userId, iat |-> t, exp |-> t + lifetime]

generateAccessToken(payload, t) == jwtSign(payload, ACCESS_SECRET, AccessLifetime, t)

generateRefreshToken(payload, t) ==
  jwtSign(payload, REFRESH_SECRET, RefreshLifetime, t)

Throws(name) == [ok |-> FALSE, name |-> name, userId |-> NoUserId]

Decoded(token) == [ok |-> TRUE, name |-> "", userId |-> token.userId]

\* variant: expiry is looked at before the signature
jwtVerifyExpiryFirst(token, secret, t) ==
  IF token.sig \in {"malformed", "undefined"} THEN Throws("JsonWebTokenError")
  ELSE IF t >= token.exp THEN Throws("TokenExpiredError")
  ELSE IF token.sig # secret THEN Throws("JsonWebTokenError")
  ELSE Decoded(token)

\* jwt.verify(token, secret): structure, then signature, then expiry
jwtVerify(token, secret, t) ==
  IF token.sig \in {"malformed", "undefined"} THEN Throws("JsonWebTokenError")
  ELSE IF token.sig # secret THEN Throws("JsonWebTokenError")
  ELSE IF t >= token.exp THEN Throws("TokenExpiredError")
  ELSE Decoded(token)

\* variant: access tokens verified under the refresh secret (secrets not kept apart)
verifyAccessTokenWithRefreshSecret(token, t) == jwtVerify(token, REFRESH_SECRET, t)

\* jwt.verify(token, ACCESS_SECRET)
verifyAccessToken(token, t) == jwtVerify(token, ACCESS_SECRET, t)

verifyRefreshToken(token, t) == jwtVerify(token, REFRESH_SECRET, t)

\* the instants at which tokens are minted when the codec is driven on its own
MintInstants == {0, 7}

\* generateAccessToken / generateRefreshToken at the current instant
Mint(kind, userId) ==
  /\ now \in MintInstants
  /\ probe' = [fn |-> "mint", kind |-> kind, verifier |-> "",
                token |-> IF kind = "access"
                            THEN generateAccessToken([userId |-> userId], now)
                            ELSE generateRefreshToken([userId |-> userId], now),
                presented |-> Undefined, result |-> Throws(""), at |-> now]
  /\ UNCHANGED <<now, sessionVars, gateVars, inflight>>

\* verifyAccessToken / verifyRefreshToken of the token minted last, as it is
\* or tampered with
Verify(verifier, tamper) ==
  /\ probe # NoProbe
  /\ LET presented == IF tamper THEN [probe.token EXCEPT !.sig = "attacker"]
                                 ELSE probe.token
     IN  probe' = [probe EXCEPT
                     !.fn = "verify", !.verifier = verifier,
                     !.presented = presented,
                     !.result = IF verifier = "access"
                                  THEN verifyAccessToken(presented, now)
                                  ELSE verifyRefreshToken(presented, now),
                     !.at = now]
  /\ UNCHANGED <<now, sessionVars, gateVars, inflight>>

\* the clock moves on to a later instant
TokenTick ==
  /\ \E m \in MintInstants,
        d \in {0, 1, AccessLifetime - 1, AccessLifetime, AccessLifetime + 1,
               RefreshLifetime - 1, RefreshLifetime, RefreshLifetime + 1} :
       m + d > now /\ now' = m + d
  /\ UNCHANGED <<sessionVars, gateVars, inflight, probe>>

\* what one middleware invocation has done so far to req, res and next, with
\* counts of the calls it made to its collaborators
NewExchange(attachedUserId) ==
  [status |-> 0, code |-> "", sends |-> 0, nexts |-> 0, thrown |-> FALSE,
   userId |-> attachedUserId, user |-> "",
   cookieAccess |-> Undefined, cookieRefresh |-> Undefined, cleared |-> {},
   headerAccess |-> Undefined, headerRefresh |-> Undefined,
   dataAccess |-> Undefined, dataRefresh |-> Undefined,
   refreshAttempts |-> 0, refreshVerifies |-> 0, lookups |-> 0, minted |-> 0]

\* res.status(status).json({code})
Json(x, status, code) ==
  [x EXCEPT !.status = status, !.code = code, !.sends = @ + 1]

\* next()
CallNext(x) == [x EXCEPT !.nexts = @ + 1]

\* setAuthCookies: res.cookie for both tokens
setAuthCookies(x, accessToken, refreshToken) ==
  [x EXCEPT !.cookieAccess = accessToken, !.cookieRefresh = refreshToken]

\* clearAuthCookies: res.clearCookie for both names
clearAuthCookies(x) ==
  [x EXCEPT !.cleared = @ \cup {"accessToken", "refreshToken"}]

\* generateTokensWithCookies: mints the pair and sets both cookies
generateTokensWithCookies(x, payload, t) ==
  LET accessToken == generateAccessToken(payload, t)
      refreshToken == generateRefreshToken(payload, t)
  IN  [x |-> [setAuthCookies(x, accessToken, refreshToken)
                EXCEPT !.minted = @ + 1],
       accessToken |-> accessToken, refreshToken |-> refreshToken]

-----------------------------------------------------------------------------
(* The gates: src/server/src/middlewares/auth.ts *)

\* a principal that is not (or no longer) in the user store
NoUser == "none"

\* User.findById(id): the document, null, or a rejection when the user store
\* cannot answer
findById(store, id, db) ==
  IF db # "ok" THEN [threw |-> TRUE, found |-> FALSE, id |-> NoUserId, role |-> NoUser]
  ELSE IF id \in DOMAIN store /\ store[id] # NoUser
    THEN [threw |-> FALSE, found |-> TRUE, id |-> id, role |-> store[id]]
    ELSE [threw |-> FALSE, found |-> FALSE, id |-> NoUserId, role |-> NoUser]

RefreshFailed(x) == [success |-> FALSE, threw |-> FALSE, userId |-> NoUserId, x |-> x]

\* res.setHeader("X-New-Access-Token", ...), res.setHeader("X-New-Refresh-Token", ...)
\* variant: only X-New-Access-Token is set, the refresh header is left out
MirrorAccessHeaderOnly(x, accessToken, refreshToken) ==
  [x EXCEPT !.headerAccess = accessToken]

\* auth.ts 115-116: both X-New-* headers are set
MirrorInHeaders(x, accessToken, refreshToken) ==
  [x EXCEPT !.headerAccess = accessToken, !.headerRefresh = refreshToken]

\* the tail of attemptTokenRefresh: no such user -> failure; else a new pair is
\* minted into the cookies and mirrored in the X-New-* headers
\* variant: the pair is minted before the user is known to exist
RefreshForMintingFirst(user, x, t) ==
  LET payload == [userId |-> user.id]
      pair == generateTokensWithCookies(x, payload, t)
      x3 == MirrorInHeaders(pair.x, pair.accessToken, pair.refreshToken)
  IN  IF ~user.found THEN RefreshFailed(x3)
      ELSE [success |-> TRUE, threw |-> FALSE, userId |-> user.id, x |-> x3]

\* auth.ts 103-121: the user is looked up first; only a found user gets a new pair
RefreshFor(user, x, t) ==
  IF ~user.found THEN RefreshFailed(x)
  ELSE
  LET payload == [userId |-> user.id]
      pair == generateTokensWithCookies(x, payload, t)
      x3 == MirrorInHeaders(pair.x, pair.accessToken, pair.refreshToken)
  IN  [success |-> TRUE, threw |-> FALSE, userId |-> user.id, x |-> x3]

\* attemptTokenRefresh: the cookie's refresh token, else the body's; verified;
\* the principal looked up; then RefreshFor. Every exception inside is caught
\* and reported as a failed refresh.
attemptTokenRefresh(req, x0, store, db, t) ==
  LET x == [x0 EXCEPT !.refreshAttempts = @ + 1]
  IN
  IF ~Truthy(req.refreshCookie) /\ ~req.body.present
    THEN RefreshFailed(x)   \* req.body.refreshToken of an undefined body throws
  ELSE
  LET candidateRefreshToken ==
        IF Truthy(req.refreshCookie) THEN req.refreshCookie
                                     ELSE req.body.refreshToken
  IN
  IF ~Truthy(candidateRefreshToken) THEN RefreshFailed(x)
  ELSE
  LET decoded == verifyRefreshToken(candidateRefreshToken, t)
      x1 == [x EXCEPT !.refreshVerifies = @ + 1]
  IN
  IF ~decoded.ok THEN RefreshFailed(x1)
  ELSE
  LET user == findById(store, decoded.userId, db)
      x2 == [x1 EXCEPT !.lookups = @ + 1]
  IN
  IF user.threw THEN RefreshFailed(x2)
  ELSE RefreshFor(user, x2, t)

\* what authenticate does with what the refresh attempt resolved to
AfterRefresh(refreshResult) ==
  IF refreshResult.threw
    THEN Json(refreshResult.x, 500, "AUTH_SERVICE_ERROR")
  ELSE IF refreshResult.success
    THEN CallNext([refreshResult.x EXCEPT !.userId = refreshResult.userId])
  ELSE Json(refreshResult.x, 401, "SESSION_EXPIRED")

\* the catch block of authenticate: an expired access token is refreshed, any
\* other verification error is 401 INVALID_TOKEN
\* variant: every verification error, not only expiry, goes to the refresh path
OnAccessTokenErrorRefreshingAlways(name, req, x, store, db, t) ==
  AfterRefresh(attemptTokenRefresh(req, x, store, db, t))

\* auth.ts 47-71: only TokenExpiredError reaches attemptTokenRefresh
OnAccessTokenError(name, req, x, store, db, t) ==
  IF name = "TokenExpiredError"
    THEN AfterRefresh(attemptTokenRefresh(req, x, store, db, t))
    ELSE Json(x, 401, "INVALID_TOKEN")

\* variant: the Authorization header's token first, else the cookie's
ExtractAccessTokenHeaderFirst(req) ==
  IF Truthy(req.authorization.token) THEN req.authorization.token
                                     ELSE req.accessCookie

\* the access token: the cookie's, else the Authorization header's
ExtractAccessToken(req) ==
  IF Truthy(req.accessCookie) THEN req.accessCookie
                              ELSE req.authorization.token

\* authenticate: no token -> 401 NO_TOKEN; a valid one -> req.userId and next;
\* otherwise the catch block
\* variant: the valid-token path also loads the user from the store
authenticateLookingUpUser(req, store, db, t) ==
  LET x == NewExchange(NoUserId)
      accessToken == ExtractAccessToken(req)
  IN
  IF ~Truthy(accessToken) THEN Json(x, 401, "NO_TOKEN")
  ELSE
  LET decoded == verifyAccessToken(accessToken, t)
  IN
  IF decoded.ok
    THEN LET user == findById(store, decoded.userId, db)
         IN  IF user.found
               THEN CallNext([x EXCEPT !.userId = decoded.userId, !.lookups = @ + 1])
               ELSE Json([x EXCEPT !.lookups = @ + 1], 401, "INVALID_TOKEN")
    ELSE OnAccessTokenError(decoded.name, req, x, store, db, t)

\* variant: a valid access token is honoured only while the session index of
\* its subject is in the cache store
authenticateRequiringSession(req, store, db, t) ==
  LET x == NewExchange(NoUserId)
      accessToken == ExtractAccessToken(req)
  IN
  IF ~Truthy(accessToken) THEN Json(x, 401, "NO_TOKEN")
  ELSE
  LET decoded == verifyAccessToken(accessToken, t)
  IN
  IF decoded.ok
    THEN IF RedisGet(redis, redisReady, getUserSessionsKey(decoded.userId)).hit
           THEN CallNext([x EXCEPT !.userId = decoded.userId])
           ELSE Json(x, 401, "SESSION_EXPIRED")
    ELSE OnAccessTokenError(decoded.name, req, x, store, db, t)

\* auth.ts 20-79: authenticate
authenticate(req, store, db, t) ==
  LET x == NewExchange(NoUserId)
      accessToken == ExtractAccessToken(req)
  IN
  IF ~Truthy(accessToken) THEN Json(x, 401, "NO_TOKEN")
  ELSE
  LET decoded == verifyAccessToken(accessToken, t)
  IN
  IF decoded.ok THEN CallNext([x EXCEPT !.userId = decoded.userId])
  ELSE OnAccessTokenError(decoded.name, req, x, store, db, t)

\* authorize (legacy): the principal must exist and have role "admin"
authorize(attachedUserId, store, db) ==
  LET x == NewExchange(attachedUserId)
      user == findById(store, attachedUserId, db)
      x1 == [x EXCEPT !.lookups = @ + 1]
  IN  IF user.threw THEN Json(x1, 500, "AUTH_SERVICE_ERROR")
      ELSE IF ~user.found THEN Json(x1, 403, "USER_NOT_FOUND")
      ELSE IF user.role # "admin" THEN Json(x1, 403, "INSUFFICIENT_PRIVILEGES")
      ELSE CallNext([x1 EXCEPT !.user = user.role])

\* requireRole(requiredRole)
\* variant: requireRole without its try/catch, a rejected lookup escapes
requireRoleUncaught(requiredRole, attachedUserId, store, db) ==
  LET x == NewExchange(attachedUserId)
      user == findById(store, attachedUserId, db)
      x1 == [x EXCEPT !.lookups = @ + 1]
  IN  IF user.threw THEN [x1 EXCEPT !.thrown = TRUE]
      ELSE IF ~user.found THEN Json(x1, 403, "USER_NOT_FOUND")
      ELSE IF ~hasRole(user.role, requiredRole)
        THEN Json(x1, 403, "INSUFFICIENT_ROLE")
      ELSE CallNext([x1 EXCEPT !.user = user.role])

\* auth.ts 171-203: requireRole, whose catch answers 500
requireRole(requiredRole, attachedUserId, store, db) ==
  LET x == NewExchange(attachedUserId)
      user == findById(store, attachedUserId, db)
      x1 == [x EXCEPT !.lookups = @ + 1]
  IN  IF user.threw THEN Json(x1, 500, "AUTH_SERVICE_ERROR")
      ELSE IF ~user.found THEN Json(x1, 403, "USER_NOT_FOUND")
      ELSE IF ~hasRole(user.role, requiredRole)
        THEN Json(x1, 403, "INSUFFICIENT_ROLE")
      ELSE CallNext([x1 EXCEPT !.user = user.role])

\* variant: a principal that is not in the user store is let through
requirePermissionsAllowingUnknown(requiredPermissions, attachedUserId, store, db) ==
  LET x == NewExchange(attachedUserId)
      user == findById(store, attachedUserId, db)
      x1 == [x EXCEPT !.lookups = @ + 1]
  IN  IF user.threw THEN Json(x1, 500, "AUTH_SERVICE_ERROR")
      ELSE IF ~user.found THEN CallNext(x1)
      ELSE IF ~canAccessResource(user.role, requiredPermissions)
        THEN Json(x1, 403, "INSUFFICIENT_PERMISSIONS")
      ELSE CallNext([x1 EXCEPT !.user = user.role])

\* auth.ts 209-241: requirePermissions(requiredPermissions)
requirePermissions(requiredPermissions, attachedUserId, store, db) ==
  LET x == NewExchange(attachedUserId)
      user == findById(store, attachedUserId, db)
      x1 == [x EXCEPT !.lookups = @ + 1]
  IN  IF user.threw THEN Json(x1, 500, "AUTH_SERVICE_ERROR")
      ELSE IF ~user.found THEN Json(x1, 403, "USER_NOT_FOUND")
      ELSE IF ~canAccessResource(user.role, requiredPermissions)
        THEN Json(x1, 403, "INSUFFICIENT_PERMISSIONS")
      ELSE CallNext([x1 EXCEPT !.user = user.role])

-----------------------------------------------------------------------------
(* The error handler: src/unnamed/part_011, and POST /refresh:                *)
(* src/server/src/controllers/refresh.ts                                      *)

\* new AppError(message, statusCode, code)
AppError(statusCode, code) ==
  [name |-> "Error", isAppError |-> TRUE, statusCode |-> statusCode, code |-> code]

AuthenticationError == AppError(401, "AUTHENTICATION_ERROR")

NotFoundError == AppError(404, "NOT_FOUND")

\* an error that is no AppError: what jwt.verify, the user store or the
\* runtime threw, known by its name
Raised(name) ==
  [name |-> name, isAppError |-> FALSE, statusCode |-> 0, code |-> ""]

\* handleMongoError for an error other than a duplicate key
handleMongoError(error) == AppError(500, "DATABASE_ERROR")

\* handleJWTError: expired or not, an AuthenticationError
handleJWTError(error) == AuthenticationError

\* globalErrorHandler: the error is turned into an AppError and answered with
\* its statusCode in the error envelope
globalErrorHandler(error, x) ==
  LET appError ==
        IF error.isAppError THEN error
        ELSE IF error.name \in {"MongoError", "MongoServerError"}
          THEN handleMongoError(error)
        ELSE IF error.name \in {"JsonWebTokenError", "TokenExpiredError"}
          THEN handleJWTError(error)
        ELSE IF error.name \in {"ValidationError", "CastError"}
          THEN AppError(400, "VALIDATION_ERROR")
        ELSE AppError(500, "INTERNAL_SERVER_ERROR")
  IN  Json(x, appError.statusCode, appError.code)

Ended(x) == [pc |-> "done", x |-> x, subject |-> NoUserId]

\* refreshToken up to `await User.findById`: the cookie's refresh token, else
\* the body's; none -> AuthenticationError; verifyRefreshToken throws on an
\* invalid or expired one. asyncHandler hands every throw to globalErrorHandler.
refreshTokenUntilLookup(req, t) ==
  LET x == NewExchange(NoUserId)
  IN
  IF ~Truthy(req.refreshCookie) /\ ~req.body.present
    THEN Ended(globalErrorHandler(Raised("TypeError"), x))
  ELSE
  LET refreshTokenValue ==
        IF Truthy(req.refreshCookie) THEN req.refreshCookie
                                     ELSE req.body.refreshToken
  IN
  IF ~Truthy(refreshTokenValue) THEN Ended(globalErrorHandler(AuthenticationError, x))
  ELSE
  LET decoded == verifyRefreshToken(refreshTokenValue, t)
      x1 == [x EXCEPT !.refreshVerifies = @ + 1]
  IN
  IF ~decoded.ok THEN Ended(globalErrorHandler(Raised(decoded.name), x1))
  ELSE [pc |-> "awaitLookup", x |-> x1, subject |-> decoded.userId]

\* refreshToken from the lookup's answer on: no user -> NotFoundError; else a
\* new pair in the cookies and in the 200 body
refreshTokenAfterLookup(subject, x, store, db, t) ==
  LET user == findById(store, subject, db)
      x2 == [x EXCEPT !.lookups = @ + 1]
  IN
  IF user.threw THEN globalErrorHandler(Raised("MongooseError"), x2)
  ELSE IF ~user.found THEN globalErrorHandler(NotFoundError, x2)
  ELSE
  LET pair == generateTokensWithCookies(x2, [userId |-> user.id], t)
  IN  Json([pair.x EXCEPT !.dataAccess = pair.accessToken,
                          !.dataRefresh = pair.refreshToken,
                          !.user = user.role],
           200, "")

\* refreshToken when nothing happens between the lookup and its answer
refreshToken(req, store, db, t) ==
  LET begun == refreshTokenUntilLookup(req, t)
  IN  IF begun.pc = "done" THEN begun.x
      ELSE refreshTokenAfterLookup(begun.subject, begun.x, store, db, t)

-----------------------------------------------------------------------------
(* The gates as a state machine: requests arrive one at a time, each with     *)
(* credentials the server has minted earlier or that somebody made up         *)

\* the instants the clock visits: around the two token lifetimes
\* the instants at which logins (and refreshes) minted the tokens in
\* circulation: every access lifetime, MaxMints times
MintTimes == {k * AccessLifetime : k \in 0 .. (MaxMints - 1)}

ClockInstants == MintTimes \cup {AccessLifetime - 1, RefreshLifetime}

\* every token generateTokensWithCookies has handed out by time t
MintedTokens(t) ==
  UNION { {generateAccessToken([userId |-> u], m),
           generateRefreshToken([userId |-> u], m)} :
          <<u, m>> \in {p \in UserIds \X MintTimes : p[2] <= t /\ (deletedAt[p[1]] = Never \/ p[2] <= deletedAt[p[1]])} }

\* a token signed with a key that is not the server's, with no expiry to
\* speak of
Forged ==
  [sig |-> "attacker", userId |-> "u1", iat |-> 0,
   exp |-> 2 * RefreshLifetime]

PresentedTokens(t) == MintedTokens(t) \cup {Forged, Malformed}

NoHeader == [scheme |-> "", token |-> Undefined]

Bearer(token) == [scheme |-> "Bearer", token |-> token]

\* req.body: undefined, {} or {refreshToken}
NoBody == [present |-> FALSE, refreshToken |-> Undefined]

EmptyBody == [present |-> TRUE, refreshToken |-> Undefined]

BodyWith(token) == [present |-> TRUE, refreshToken |-> token]

\* the tokens a request carries in its second transport (the Authorization
\* header, the body) 
SideTokens(t) == {tok \in PresentedTokens(t) : tok.userId # "u2" /\ tok.iat = 0}

\* how it presents its refresh credential: a cookie (the body parsed), nothing
\* at all, a body token alone, or a body token beside a malformed cookie
RefreshTransports(t) ==
  {<<c, EmptyBody>> : c \in PresentedTokens(t) \cup {Undefined}}
  \cup {<<Undefined, NoBody>>}
  \cup {<<Undefined, BodyWith(tok)>> : tok \in SideTokens(t)}
  \cup {<<Malformed, BodyWith(generateRefreshToken([userId |-> "u1"], 0))>>}

\* the requests: the access credential in a cookie alone, in a header alone,
\* or in both, with each way of presenting a refresh token
Requests(t) ==
  LET AccessTransports ==
        {<<c, NoHeader>> : c \in PresentedTokens(t) \cup {Undefined}}
        \cup {<<Undefined, Bearer(tok)>> : tok \in SideTokens(t)}
        \cup ({Malformed, generateAccessToken([userId |-> "u1"], 0)}
                \X {Bearer(generateAccessToken([userId |-> "u1"], 0)), Bearer(Forged)})
  IN  { [accessCookie |-> a[1], authorization |-> a[2],
         refreshCookie |-> r[1], body |-> r[2]] :
        <<a, r>> \in AccessTransports \X RefreshTransports(t) }

DbStates == {"ok", "down"}

NoRequest ==
  [accessCookie |-> Undefined, authorization |-> NoHeader,
   refreshCookie |-> Undefined, body |-> NoBody]

Outcome(gate, req, attachedUserId, requiredRole, requiredPermissions, db, x) ==
  [gate |-> gate, req |-> req, attached |-> attachedUserId,
   requiredRole |-> requiredRole, requiredPermissions |-> requiredPermissions,
   db |-> db, x |-> x]

Authenticate(req, db) ==
  /\ out = NoGate
  /\ out' = Outcome("authenticate", req, NoUserId, "", <<>>, db,
                    authenticate(req, users, db, now))
  /\ UNCHANGED <<now, users, deletedAt, sessionVars, inflight, probe>>

Authorize(attachedUserId, db) ==
  /\ out = NoGate
  /\ out' = Outcome("authorize", NoRequest, attachedUserId, "", <<>>, db,
                    authorize(attachedUserId, users, db))
  /\ UNCHANGED <<now, users, deletedAt, sessionVars, inflight, probe>>

RequireRole(requiredRole, attachedUserId, db) ==
  /\ out = NoGate
  /\ out' = Outcome("requireRole", NoRequest, attachedUserId, requiredRole, <<>>, db,
                    requireRole(requiredRole, attachedUserId, users, db))
  /\ UNCHANGED <<now, users, deletedAt, sessionVars, inflight, probe>>

RequirePermissions(requiredPermissions, attachedUserId, db) ==
  /\ out = NoGate
  /\ out' = Outcome("requirePermissions", NoRequest, attachedUserId, "",
                    requiredPermissions, db,
                    requirePermissions(requiredPermissions, attachedUserId, users, db))
  /\ UNCHANGED <<now, users, deletedAt, sessionVars, inflight, probe>>

\* the request is over: the response has gone out, or the route handler ran
Finish ==
  /\ out # NoGate
  /\ out' = NoGate
  /\ UNCHANGED <<now, users, deletedAt, sessionVars, inflight, probe>>

\* time passes between requests
Tick ==
  /\ out = NoGate
  /\ \E t \in ClockInstants : t > now /\ now' = t
  /\ UNCHANGED <<users, deletedAt, out, sessionVars, inflight, probe>>

\* the user store changes under the gates: a role is changed, a user deleted
SetRole(u, role) ==
  /\ out = NoGate
  /\ u = "u1"
  /\ users[u] \notin {NoUser, role}
  /\ users' = [users EXCEPT ![u] = role]
  /\ UNCHANGED <<now, deletedAt, out, sessionVars, inflight, probe>>

DeleteUser(u) ==
  /\ out = NoGate
  /\ users[u] # NoUser
  /\ users' = [users EXCEPT ![u] = NoUser]
  /\ deletedAt' = [deletedAt EXCEPT ![u] = now]
  /\ UNCHANGED <<now, out, sessionVars, inflight, probe>>

Init ==
  /\ now = 0
  /\ users = [u \in UserIds |-> "user"]
  /\ deletedAt = [u \in UserIds |-> Never]
  /\ out = NoGate
  /\ redis = <<>>
  /\ redisReady = TRUE
  /\ usedIds = {}
  /\ ret = NoCall
  /\ created = [u \in UserIds |-> {}]
  /\ disturbed = FALSE
  /\ inflight = NoRace
  /\ probe = NoProbe

Next ==
  \/ \E req \in Requests(now), db \in DbStates : Authenticate(req, db)
  \/ \E id \in UserIds \cup {NoUserId}, db \in DbStates : Authorize(id, db)
  \/ \E r \in UserRole, id \in UserIds \cup {NoUserId}, db \in DbStates :
       RequireRole(r, id, db)
  \/ \E ps \in {<<>>, <<"read_own_todos">>, <<"read_all_todos", "delete_any_todo">>,
               <<"read_all_users">>, <<"create_todo", "manage_admins">>},
        id \in UserIds \cup {NoUserId}, db \in DbStates :
       RequirePermissions(ps, id, db)
  \/ Finish
  \/ Tick
  \/ \E u \in UserIds, r \in UserRole : SetRole(u, r)
  \/ \E u \in UserIds : DeleteUser(u)

Spec == Init /\ [][Next]_vars

-----------------------------------------------------------------------------
(* The Authentication Gate beside the session registry: requests are served   *)
(* while sessions are created, deleted and expire and the cache store comes    *)
(* and goes.  The outcome of a request stays on record until Finish.           *)

\* time passes between requests; the backend drops the keys that ran out
RegistryTick ==
  /\ out = NoGate
  /\ \E t \in ClockInstants : t > now /\ now' = t
  /\ redis' = Purge(redis, now')
  /\ disturbed' = TRUE
  /\ ret' = NoCall
  /\ UNCHANGED <<redisReady, usedIds, created, users, deletedAt, out, inflight, probe>>

RegistrySpec ==
  /\ Init
  /\ [][
       \/ \E a \in {generateAccessToken([userId |-> "u1"], 0),
                    generateRefreshToken([userId |-> "u1"], 0), Forged, Undefined},
             r \in {generateRefreshToken([userId |-> "u1"], 0), Undefined},
             db \in DbStates :
            Authenticate([accessCookie |-> a, authorization |-> NoHeader,
                          refreshCookie |-> r, body |-> EmptyBody], db)
       \/ Finish
       \/ RegistryTick
       \/ \E u \in UserIds, r \in SessionRoles : CreateSession(u, r)
       \/ \E s \in SessionIds : DeleteSession(s)
       \/ \E u \in UserIds : LogoutAllDevices(u)
       \/ RedisError
       \/ RedisConnect
     ]_vars

-----------------------------------------------------------------------------
(* RedisService.set / get with their serialization: src/unnamed/part_004      *)
(* The backend stores strings.  A JavaScript value is known here by its type  *)
(* and its text: the characters of a string, the JSON text of anything else.  *)

JsValue(type, text) == [type |-> type, text |-> text]

JsNull == JsValue("null", "null")

\* the values callers cache: strings, among them the empty string and strings
\* that are JSON text themselves, numbers, booleans, objects and arrays
CachedValues ==
  {JsValue("string", t) : t \in {"", "Hello Redis!", "123", "true", "null",
                                  "{\"name\":\"John\",\"age\":30}"}}
  \cup {JsValue("number", "123"), JsValue("boolean", "true"),
        JsValue("object", "{\"name\":\"John\",\"age\":30}")}

\* JSON.stringify of a value that is not a string: its JSON text
JSONstringify(value) == value.text

\* the JSON texts JSON.parse accepts, with what each one denotes
JsonDenotations ==
  {v \in CachedValues : v.type # "string"} \cup {JsNull}

\* JSON.parse: the value the text denotes; a text that is not JSON throws
JSONparse(text) ==
  IF \E v \in JsonDenotations : v.text = text
    THEN [threw |-> FALSE, value |-> CHOOSE v \in JsonDenotations : v.text = text]
  ELSE [threw |-> TRUE, value |-> JsNull]

\* RedisService.set: a string is stored as it is, anything else as its JSON
\* text; true on success, false when the backend fails
set(store, ready, key, value, expireInSeconds, t) ==
  LET stringValue == IF value.type = "string" THEN value.text
                                              ELSE JSONstringify(value)
  IN  IF ready
        THEN [ok |-> TRUE,
              store |-> [k \in (DOMAIN store) \cup {key} |->
                           IF k = key THEN [val |-> stringValue,
                                            exp |-> t + expireInSeconds]
                                      ELSE store[k]]]
        ELSE [ok |-> FALSE, store |-> store]

\* RedisService.get: null for a missing key, an empty string or a backend
\* error; else what JSON.parse makes of the stored string, or the string itself
\* when it does not parse
get(store, ready, key) ==
  IF ~ready \/ key \notin DOMAIN store THEN JsNull
  ELSE LET value == store[key].val
       IN  IF value = "" THEN JsNull
           ELSE IF JSONparse(value).threw THEN JsValue("string", value)
           ELSE JSONparse(value).value

CacheKeys == {"test:key", "test:json"}

CacheSet(key, value) ==
  /\ LET r == set(redis, redisReady, key, value, 60, now)
     IN  /\ redis' = r.store
         /\ probe' = [fn |-> "set", key |-> key, value |-> value, ok |-> r.ok]
  /\ UNCHANGED <<now, redisReady, usedIds, ret, created, disturbed, gateVars, inflight>>

CacheGet(key) ==
  /\ probe' = [fn |-> "get", key |-> key, value |-> get(redis, redisReady, key),
               ok |-> TRUE]
  /\ UNCHANGED <<now, sessionVars, gateVars, inflight>>

CacheDel(key) ==
  /\ redis' = RedisDel(redis, redisReady, key)
  /\ probe' = [fn |-> "del", key |-> key, value |-> JsNull, ok |-> redisReady]
  /\ UNCHANGED <<now, redisReady, usedIds, ret, created, disturbed, gateVars, inflight>>

\* time passes; keys whose time to live has run out are gone
CacheTick ==
  /\ now < MaxTicks * 60
  /\ now' = now + 60
  /\ redis' = Purge(redis, now')
  /\ probe' = NoProbe
  /\ UNCHANGED <<redisReady, usedIds, ret, created, disturbed, gateVars, inflight>>

-----------------------------------------------------------------------------
(* The client: src/client/src/services/auth.ts.  TokenStorage holds the pair   *)
(* (both tokens or none); authApi's response interceptor handles each answer.  *)
(* The requests that wait on one another form a stack: a request answered 401  *)
(* TOKEN_EXPIRED waits for the POST /refresh that AuthService.refreshToken     *)
(* sends through the same authApi.                                             *)

\* authApi.interceptors.response for the answer (status, code) to the request
\* on top; renewed says that it carries a new pair of tokens (in the
\* x-new-*-token headers, or in the body of POST /refresh).  A 2xx resolves the
\* request: a new pair is stored, and the request that waited for a refresh is
\* sent again, marked _retry.  An error: a 401 to a
\* request not marked _retry starts a refresh (TOKEN_EXPIRED, tokens stored) or
\* clears the tokens and redirects (SESSION_EXPIRED, NO_TOKEN); then, unless a
\* refresh was started, the request rejects, and a rejected POST /refresh makes
\* refreshToken clear the tokens and the interceptors waiting below (if any)
\* clear them, redirect and reject in turn.
interceptorsResponse(client, status, code, renewed) ==
  LET top == client.stack[Len(client.stack)]
      below == SubSeq(client.stack, 1, Len(client.stack) - 1)
      heard == [client EXCEPT
                  !.last = [status |-> status, code |-> code,
                            hadTokens |-> client.tokens],
                  !.expired = @ \/ (status = 401 /\ code = "SESSION_EXPIRED")]
      handled == IF status = 401 /\ ~top.retry
                    /\ code \in {"SESSION_EXPIRED", "NO_TOKEN"}
                   THEN [heard EXCEPT !.tokens = FALSE, !.redirected = TRUE]
                   ELSE heard
  IN  IF status = 200
        THEN IF top.kind = "refresh"
               THEN [heard EXCEPT !.tokens = @ \/ renewed, !.stack = below,
                                  !.sent = IF below = <<>> THEN @ ELSE @ + 1]
               ELSE [heard EXCEPT !.tokens = @ \/ renewed, !.stack = below]
      ELSE IF status = 401 /\ ~top.retry /\ code = "TOKEN_EXPIRED" /\ client.tokens
        THEN [heard EXCEPT
                !.stack = Append(below, [top EXCEPT !.retry = TRUE])
                            \o <<[kind |-> "refresh", retry |-> FALSE]>>,
                !.sent = @ + 1]
      ELSE IF top.kind = "refresh"
        THEN [handled EXCEPT !.tokens = FALSE, !.stack = <<>>,
                             !.redirected = @ \/ below # <<>>]
      ELSE [handled EXCEPT !.stack = below]

\* the application makes a request through authApi, or calls
\* AuthService.refreshToken, with the pair of tokens of an earlier login in
\* TokenStorage or with none
Send(kind, stored) ==
  /\ IF probe = NoProbe THEN TRUE ELSE probe.stack = <<>> /\ probe.tokens = stored
  /\ probe' = [fn |-> "client", tokens |-> stored, redirected |-> FALSE,
               stack |-> <<[kind |-> kind, retry |-> FALSE]>>, sent |-> 1,
               expired |-> FALSE,
               last |-> [status |-> 0, code |-> "", hadTokens |-> stored]]
  /\ UNCHANGED <<now, sessionVars, gateVars, inflight>>

\* the server answers the request on top
Respond(status, code, renewed) ==
  /\ probe # NoProbe
  /\ probe.stack # <<>>
  /\ Len(probe.stack) = MaxDepth => code # "TOKEN_EXPIRED"
  /\ renewed => status = 200
  /\ probe' = interceptorsResponse(probe, status, code, renewed)
  /\ UNCHANGED <<now, sessionVars, gateVars, inflight>>

-----------------------------------------------------------------------------
(* The todo controllers and TodoCacheService: src/server/src/controllers/     *)
(* todo.ts, src/unnamed/part_005.  The database holds the user's todos, _id   *)
(* |-> content; the cache store holds the list under todos:user:{userId}.     *)
(* A request is [op, pc, id, content, data, strict]: data is the list getAll  *)
(* has read, strict says that it began after a successful createTdo,          *)
(* updateTodo or deleteTodo and that none has run beside it since.            *)

\* one await of a todo controller: the request after it, the database and the
\* store after it, and the response once it has one
todoAwait(p, todos, store, ready, userId, t) ==
  LET cacheKey == <<"todos:user:", userId>>
      at(pc) == [p EXCEPT !.pc = pc]
      own == p.id \in DOMAIN todos
      stay == [p |-> p, todos |-> todos, store |-> store,
               res |-> [status |-> 0, data |-> <<>>]]
      json(status, data) == [stay EXCEPT !.p = at("done"),
                                         !.res = [status |-> status, data |-> data]]
      cachedTodos == RedisGet(store, ready, cacheKey)
      invalidated == RedisDel(store, ready, cacheKey)
  IN  CASE p.pc = "Todo.create" ->
             [stay EXCEPT !.p = at("invalidateUserTodos"),
                          !.todos = [k \in (DOMAIN todos) \cup {p.id} |->
                                       IF k = p.id THEN p.content ELSE todos[k]]]
        [] p.pc = "invalidateUserTodos" ->
             [json(IF p.op = "createTdo" THEN 201 ELSE 200, <<>>)
                EXCEPT !.store = invalidated]
        [] p.pc = "getUserTodos" ->
             IF cachedTodos.hit THEN json(200, cachedTodos.val)
                                ELSE [stay EXCEPT !.p = at("Todo.find")]
        [] p.pc = "Todo.find" ->
             IF DOMAIN todos # {}
               THEN [stay EXCEPT !.p = [at("setUserTodos") EXCEPT !.data = todos]]
               ELSE json(200, todos)
        [] p.pc = "setUserTodos" ->
             [json(200, p.data)
                EXCEPT !.store = RedisSet(store, ready, cacheKey, p.data, 300, t)]
        [] p.pc = "Todo.findOneAndDelete" ->
             IF own
               THEN [json(200, <<>>) EXCEPT
                       !.todos = [k \in (DOMAIN todos) \ {p.id} |-> todos[k]]]
               ELSE json(404, <<>>)
        [] p.pc = "Todo.findOneAndUpdate" ->
             IF own
               THEN [stay EXCEPT !.p = at("invalidateUserTodos"),
                                 !.todos = [todos EXCEPT ![p.id] = p.content]]
               ELSE json(404, <<>>)

\* request i of user u1 goes on by one await: it begins (op, id and content
\* are the request's) or resumes where it waits
TodoRequest(i, op, id, content) ==
  LET idle == [op |-> "idle", pc |-> "idle", id |-> 0, content |-> "",
               data |-> <<>>, strict |-> FALSE]
      p == IF inflight = NoRace THEN [j \in Procs |-> idle] ELSE inflight.p
      seen == IF probe = NoProbe
                THEN [fn |-> "todos", todos |-> <<>>, made |-> 0, mutated |-> FALSE]
                ELSE probe
      mutating(j) == p[j].op \in {"createTdo", "updateTodo", "deleteTodo"}
      entering == p[i].op = "idle"
      begun == [op |-> op, id |-> id, content |-> content, data |-> <<>>,
                pc |-> CASE op = "createTdo" -> "Todo.create"
                         [] op = "getAll" -> "getUserTodos"
                         [] op = "deleteTodo" -> "Todo.findOneAndDelete"
                         [] op = "updateTodo" -> "Todo.findOneAndUpdate",
                strict |-> seen.mutated /\ \A j \in Procs \ {i} : ~mutating(j)]
      r == todoAwait(IF entering THEN begun ELSE p[i], seen.todos, redis,
                     redisReady, "u1", now)
      mutates == op \in {"createTdo", "updateTodo", "deleteTodo"}
  IN  /\ inflight # NoRace => inflight.route = "todos"
      /\ IF entering
           THEN CASE op = "createTdo" -> seen.made < MaxTodos /\ id = seen.made + 1
                  [] op = "getAll" -> id = 0 /\ content = ""
                  [] op = "deleteTodo" -> id \in 1..seen.made /\ content = ""
                  [] op = "updateTodo" -> id \in 1..seen.made
           ELSE p[i].op = op /\ p[i].id = id /\ p[i].content = content
      /\ redis' = r.store
      /\ inflight' =
           [route |-> "todos",
            p |-> [j \in Procs |->
                     IF j = i THEN IF r.p.pc = "done" THEN idle ELSE r.p
                     ELSE IF mutates THEN [p[j] EXCEPT !.strict = FALSE]
                     ELSE p[j]]]
      /\ probe' = [seen EXCEPT
                     !.todos = r.todos,
                     !.made = IF entering /\ op = "createTdo" THEN id ELSE @,
                     !.mutated = @ \/ (mutates /\ r.p.pc = "done"
                                       /\ r.res.status \in {200, 201})]
      /\ out' = IF r.p.pc = "done"
                  THEN [gate |-> op, status |-> r.res.status, data |-> r.res.data,
                        todos |-> r.todos, strict |-> r.p.strict]
                  ELSE out
      /\ UNCHANGED <<now, redisReady, usedIds, ret, created, disturbed, users,
                     deletedAt>>

\* the requests of one user to the todo routes, in flight together
TodoSpec ==
  /\ Init
  /\ [][
       \/ \E i \in Procs, id \in 1..MaxTodos : TodoRequest(i, "createTdo", id, "a")
       \/ \E i \in Procs : TodoRequest(i, "getAll", 0, "")
       \/ \E i \in Procs, id \in 1..MaxTodos : TodoRequest(i, "deleteTodo", id, "")
       \/ \E i \in Procs, id \in 1..MaxTodos, content \in {"a", "b"} :
            TodoRequest(i, "updateTodo", id, content)
     ]_vars

-----------------------------------------------------------------------------
(* RedisClient's reconnection: src/unnamed/part_004                           *)

\* reconnectStrategy(retries): false (stop) once retries > 10, else the delay
\* in ms before the next attempt
reconnectStrategy(retries) ==
  IF retries > 10 THEN [retry |-> FALSE, delay |-> 0]
  ELSE LET d == retries * 100
       IN  [retry |-> TRUE, delay |-> IF d < 3000 THEN d ELSE 3000]

\* the socket's state: which outage this is, connected or not, how many
\* retries the strategy has been asked about, the delays it answered in this
\* outage, whether it has given up, and the ms spent waiting since start-up
Socket(outage, connected, retries, delays, stopped, waited) ==
  [fn |-> "reconnect", outage |-> outage, connected |-> connected,
   retries |-> retries, delays |-> delays, stopped |-> stopped,
   waited |-> waited]

\* the connection is lost (or the first connection attempt fails)
SocketError ==
  /\ IF probe = NoProbe THEN TRUE
                        ELSE probe.connected /\ probe.outage < MaxOutages
  /\ probe' = Socket(IF probe = NoProbe THEN 1 ELSE probe.outage + 1,
                     FALSE, 0, <<>>, FALSE,
                     IF probe = NoProbe THEN 0 ELSE probe.waited)
  /\ redisReady' = FALSE
  /\ UNCHANGED <<now, redis, usedIds, ret, created, disturbed, gateVars, inflight>>

\* the socket asks the strategy; on a delay it waits and tries again, and the
\* attempt fails or succeeds; on false it gives up
Reconnect(succeeds) ==
  /\ probe # NoProbe
  /\ ~probe.connected
  /\ ~probe.stopped
  /\ LET answer == reconnectStrategy(probe.retries)
     IN  IF ~answer.retry
           THEN /\ ~succeeds
                /\ probe' = [probe EXCEPT !.stopped = TRUE]
                /\ UNCHANGED redisReady
           ELSE /\ probe' = Socket(probe.outage, succeeds, probe.retries + 1,
                                   Append(probe.delays, answer.delay), FALSE,
                                   probe.waited + answer.delay)
                /\ redisReady' = succeeds
  /\ UNCHANGED <<now, redis, usedIds, ret, created, disturbed, gateVars, inflight>>

-----------------------------------------------------------------------------
(* The rate limiter: src/server/src/test/redisTest.ts (RateLimiter)           *)

RateLimitError == AppError(429, "RATE_LIMIT_ERROR")

\* rateLimiters.auth: 5 requests per 15 minutes
AuthLimiter == [windowMs |-> 15 * 60 * 1000, maxRequests |-> 5]

\* `rate_limit:${key}`
rateLimitKey(ip) == <<"rate_limit:", ip>>

\* variant: one request more than maxRequests is let through
middlewareCountingFromZero(options, pc, count, ip, store, ready, t) ==
  LET x == NewExchange(NoUserId)
      key == rateLimitKey(ip)
      windowInSeconds == options.windowMs \div 1000
      counted == increment(pc, count, store, ready, key, windowInSeconds, t)
      waiting == [pc |-> "expire", x |-> x, store |-> counted.store,
                  raised |-> FALSE, count |-> counted.count]
  IN  IF counted.pc = "expire" THEN waiting
      ELSE IF counted.pc = "threw"
        THEN [waiting EXCEPT !.pc = "done", !.x = CallNext(x), !.raised = TRUE]
      ELSE IF counted.count - 1 > options.maxRequests
        THEN [waiting EXCEPT !.pc = "done",
                             !.x = globalErrorHandler(RateLimitError, x)]
      ELSE [waiting EXCEPT !.pc = "done", !.x = CallNext(x)]

\* RateLimiter.middleware, one await at a time: the request is counted; while
\* increment is between its two awaits the request waits; over the limit a
\* RateLimitError goes to globalErrorHandler; when counting fails the catch
\* block lets the request through
middleware(options, pc, count, ip, store, ready, t) ==
  LET x == NewExchange(NoUserId)
      key == rateLimitKey(ip)
      windowInSeconds == options.windowMs \div 1000
      counted == increment(pc, count, store, ready, key, windowInSeconds, t)
      waiting == [pc |-> "expire", x |-> x, store |-> counted.store,
                  raised |-> FALSE, count |-> counted.count]
  IN  IF counted.pc = "expire" THEN waiting
      ELSE IF counted.pc = "threw"
        THEN [waiting EXCEPT !.pc = "done", !.x = CallNext(x), !.raised = TRUE]
      ELSE IF counted.count > options.maxRequests
        THEN [waiting EXCEPT !.pc = "done",
                             !.x = globalErrorHandler(RateLimitError, x)]
      ELSE [waiting EXCEPT !.pc = "done", !.x = CallNext(x)]

\* request i of client ip enters the rate limiter, or goes on from the await
\* it stopped at.  Kept beside it: per client, when the request that created
\* the counter (the first of its window) was counted, and how many requests
\* counted since have reached the handler.
RateLimit(i, ip) ==
  LET key == rateLimitKey(ip)
      idle == [pc |-> "idle", ip |-> "", count |-> 0]
      p == IF inflight = NoRace THEN [j \in Procs |-> idle] ELSE inflight.p
      seen == IF probe = NoProbe
                THEN [fn |-> "window", first |-> [c \in {"ip1", "ip2"} |-> Never],
                      passed |-> [c \in {"ip1", "ip2"} |-> 0]]
                ELSE probe
      entering == p[i].pc = "idle"
      r == middleware(AuthLimiter, IF entering THEN "incr" ELSE "expire",
                      p[i].count, ip, redis, redisReady, now)
      opens == entering /\ redisReady /\ r.count = 1
      before == IF opens THEN 0 ELSE seen.passed[ip]
      reaches == r.pc = "done" /\ ~r.raised /\ r.x.nexts = 1
  IN  /\ inflight # NoRace => inflight.route = "rateLimit"
      /\ IF entering THEN key \in DOMAIN redis => redis[key].val < MaxCounted
                     ELSE p[i].ip = ip
      /\ redis' = r.store
      /\ inflight' = [route |-> "rateLimit",
                      p |-> [p EXCEPT ![i] = IF r.pc = "done" THEN idle
                                             ELSE [pc |-> r.pc, ip |-> ip,
                                                   count |-> r.count]]]
      /\ probe' = [seen EXCEPT !.first[ip] = IF opens THEN now ELSE @,
                               !.passed[ip] = IF reaches THEN before + 1 ELSE before]
      /\ out' = IF r.pc = "done"
                  THEN [gate |-> "rateLimit", ip |-> ip, raised |-> r.raised,
                        count |-> r.count, x |-> r.x]
                  ELSE out
      /\ UNCHANGED <<now, redisReady, usedIds, ret, created, disturbed, users,
                     deletedAt>>

\* half a window passes; the backend drops the keys that ran out
RateTick ==
  /\ now < MaxTicks * 450
  /\ now' = now + 450
  /\ redis' = Purge(redis, now')
  /\ UNCHANGED <<redisReady, usedIds, ret, created, disturbed, gateVars, inflight,
                 probe>>

\* the user routes: per path, the middlewares mounted before the handler and
\* the handler last (router.post(path, ...))
UserRoutes ==
  [signup |-> <<"upload.single", "signup">>,
   login |-> <<"login">>,
   refresh |-> <<"refreshToken">>,
   logout |-> <<"logout">>,
   users |-> <<"authenticate", "authorize", "allUsers">>,
   me |-> <<"authenticate", "me">>]

\* POST /login from client ip: the request passes the middlewares mounted on
\* the route, of which a rate limiter alone could turn it away for its
\* frequency, and reaches the login handler.  Kept beside it: per client, when
\* the first attempt of the running 15 minutes reached the handler, and how
\* many did since.
PostLogin(ip) ==
  LET chain == UserRoutes.login
      limited == \E k \in 1 .. (Len(chain) - 1) : chain[k] = "rateLimiters.auth"
      seen == IF probe = NoProbe
                THEN [fn |-> "login", first |-> [c \in {"ip1", "ip2"} |-> Never],
                      attempts |-> [c \in {"ip1", "ip2"} |-> 0]]
                ELSE probe
      opens == seen.first[ip] = Never
               \/ now >= seen.first[ip] + AuthLimiter.windowMs \div 1000
      before == IF opens THEN 0 ELSE seen.attempts[ip]
  IN  /\ before < MaxCounted
      /\ IF limited /\ before >= AuthLimiter.maxRequests
           THEN probe' = seen
           ELSE probe' = [seen EXCEPT !.first[ip] = IF opens THEN now ELSE @,
                                      !.attempts[ip] = before + 1]
      /\ UNCHANGED <<now, sessionVars, gateVars, inflight>>

-----------------------------------------------------------------------------
(* Two requests in flight at once.  A handler runs undisturbed from one await *)
(* to the next; at an await the other request, or the clock, may move.  The   *)
(* awaits: `await User.findById` (auth.ts 101, refresh.ts 32) and `await      *)
(* attemptTokenRefresh` (auth.ts 50).                                         *)

\* one request's progress: where it stands, when it arrived, whom its refresh
\* token names, how its lookup was answered, and its exchange so far
Proc(route, pc, at, subject, lookup, success, x) ==
  [route |-> route, pc |-> pc, at |-> at, subject |-> subject,
   lookup |-> lookup, success |-> success, x |-> x]

\* authenticate up to its first await: everything but a refresh that reaches
\* the lookup is decided here; a refresh that fails before the lookup still
\* resolves through `await attemptTokenRefresh`
authenticateUntilAwait(req, t) ==
  LET x == NewExchange(NoUserId)
      accessToken == ExtractAccessToken(req)
  IN
  IF ~Truthy(accessToken)
    THEN Proc("authenticate", "done", t, NoUserId, "none", FALSE,
              Json(x, 401, "NO_TOKEN"))
  ELSE
  LET decoded == verifyAccessToken(accessToken, t)
  IN
  IF decoded.ok
    THEN Proc("authenticate", "done", t, NoUserId, "none", FALSE,
              CallNext([x EXCEPT !.userId = decoded.userId]))
  ELSE IF decoded.name # "TokenExpiredError"
    THEN Proc("authenticate", "done", t, NoUserId, "none", FALSE,
              Json(x, 401, "INVALID_TOKEN"))
  ELSE
  LET x0 == [x EXCEPT !.refreshAttempts = @ + 1]
      offered == IF Truthy(req.refreshCookie) THEN req.refreshCookie
                                              ELSE req.body.refreshToken
  IN
  IF (~Truthy(req.refreshCookie) /\ ~req.body.present) \/ ~Truthy(offered)
    THEN Proc("authenticate", "awaitRefresh", t, NoUserId, "none", FALSE, x0)
  ELSE
  LET verified == verifyRefreshToken(offered, t)
      x1 == [x0 EXCEPT !.refreshVerifies = @ + 1]
  IN
  IF ~verified.ok
    THEN Proc("authenticate", "awaitRefresh", t, NoUserId, "none", FALSE, x1)
    ELSE Proc("authenticate", "awaitLookup", t, verified.userId, "none", FALSE, x1)

\* how a lookup was answered
Answer(user) ==
  IF user.threw THEN "rejected" ELSE IF user.found THEN "found" ELSE "missing"

\* variant: refresh tokens are single-use, a refresh is refused once another
\* request in flight has been given a pair
attemptTokenRefreshAfterLookupOnce(p, store, db, t) ==
  LET user == findById(store, p.subject, db)
      x2 == [p.x EXCEPT !.lookups = @ + 1]
      r == IF user.threw \/ (\E j \in Procs : inflight.p[j].x.minted > 0)
             THEN RefreshFailed(x2)
             ELSE RefreshFor(user, x2, t)
  IN  Proc(p.route, "awaitRefresh", p.at, p.subject, Answer(user), r.success, r.x)

\* attemptTokenRefresh from the lookup's answer on
attemptTokenRefreshAfterLookup(p, store, db, t) ==
  LET user == findById(store, p.subject, db)
      x2 == [p.x EXCEPT !.lookups = @ + 1]
      r == IF user.threw THEN RefreshFailed(x2) ELSE RefreshFor(user, x2, t)
  IN  Proc(p.route, "awaitRefresh", p.at, p.subject, Answer(user), r.success, r.x)

\* request i arrives and runs to its first await
Receive(i, route, req) ==
  /\ out = NoGate
  /\ now >= AccessLifetime
  /\ IF inflight = NoRace THEN TRUE
      ELSE inflight.req = req /\ inflight.p[i].pc = "idle"
  /\ LET started == refreshTokenUntilLookup(req, now)
          begun == IF route = "authenticate" THEN authenticateUntilAwait(req, now)
                   ELSE Proc("refresh", started.pc, now, started.subject, "none",
                             FALSE, started.x)
          idle == Proc("none", "idle", Never, NoUserId, "none", FALSE,
                       NewExchange(NoUserId))
          before == IF inflight = NoRace THEN [j \in Procs |-> idle] ELSE inflight.p
     IN  inflight' = [route |-> "open", req |-> req,
                      p |-> [before EXCEPT ![i] = begun]]
  /\ UNCHANGED <<now, users, deletedAt, out, sessionVars, probe>>

\* the user store answers request i
Lookup(i, db) ==
  /\ inflight # NoRace
  /\ inflight.p[i].pc = "awaitLookup"
  /\ LET p == inflight.p[i]
          x == refreshTokenAfterLookup(p.subject, p.x, users, db, now)
          resumed == IF p.route = "authenticate"
                       THEN attemptTokenRefreshAfterLookup(p, users, db, now)
                       ELSE Proc(p.route, "done", p.at, p.subject,
                                 Answer(findById(users, p.subject, db)),
                                 x.status = 200, x)
     IN  inflight' = [inflight EXCEPT !.p[i] = resumed]
  /\ UNCHANGED <<now, users, deletedAt, out, sessionVars, probe>>

\* authenticate of request i resumes with the refresh result
Resume(i) ==
  /\ inflight # NoRace
  /\ inflight.p[i].pc = "awaitRefresh"
  /\ LET p == inflight.p[i]
          x == AfterRefresh([success |-> p.success, threw |-> FALSE,
                             userId |-> p.subject, x |-> p.x])
     IN  inflight' = [inflight EXCEPT
                        !.p[i] = Proc(p.route, "done", p.at, p.subject, p.lookup,
                                      p.success, x)]
  /\ UNCHANGED <<now, users, deletedAt, out, sessionVars, probe>>

\* time passes, also while requests wait
RaceTick ==
  /\ \E t \in ClockInstants \cup {AccessLifetime + 1, 2 * AccessLifetime} :
       t > now /\ now' = t
  /\ UNCHANGED <<users, deletedAt, out, inflight, sessionVars, probe>>

\* the request both arrivals carry: u1's access token of instant 0, expired,
\* with a refresh token in the cookie, in the body, or a forged one
RaceRequests ==
  { [accessCookie |-> generateAccessToken([userId |-> "u1"], 0),
     authorization |-> NoHeader, refreshCookie |-> r[1], body |-> r[2]] :
    r \in {<<generateRefreshToken([userId |-> "u1"], 0), EmptyBody>>,
           <<Undefined, BodyWith(generateRefreshToken([userId |-> "u1"], 0))>>,
           <<Forged, EmptyBody>>} }

RaceSpec ==
  /\ Init
  /\ [][
       \/ \E i \in Procs, route \in {"authenticate", "refresh"}, req \in RaceRequests :
            Receive(i, route, req)
       \/ \E i \in Procs, db \in DbStates : Lookup(i, db)
       \/ \E i \in Procs : Resume(i)
       \/ RaceTick
       \/ \E u \in UserIds : DeleteUser(u)
     ]_vars

\* RedisService.set / get / del called on their own
CacheSpec ==
  /\ Init
  /\ [][
       \/ \E k \in CacheKeys, v \in CachedValues : CacheSet(k, v)
       \/ \E k \in CacheKeys : CacheGet(k)
       \/ \E k \in CacheKeys : CacheDel(k)
       \/ CacheTick
       \/ RedisError
       \/ RedisConnect
     ]_vars

\* the token codec driven on its own
TokenSpec ==
  /\ Init
  /\ [][
       \/ \E kind \in {"access", "refresh"}, u \in UserIds : Mint(kind, u)
       \/ \E verifier \in {"access", "refresh"}, tamper \in BOOLEAN : Verify(verifier, tamper)
       \/ TokenTick
     ]_vars

\* POST /refresh
RefreshToken(req, db) ==
  /\ out = NoGate
  /\ out' = Outcome("refreshToken", req, NoUserId, "", <<>>, db,
                    refreshToken(req, users, db, now))
  /\ UNCHANGED <<now, users, deletedAt, sessionVars, inflight, probe>>

\* POST /refresh over a user store that loses users
RefreshSpec ==
  /\ Init
  /\ [][
       \/ \E r \in RefreshTransports(now), db \in DbStates :
            RefreshToken([accessCookie |-> Undefined, authorization |-> NoHeader,
                          refreshCookie |-> r[1], body |-> r[2]], db)
       \/ Finish
       \/ Tick
       \/ \E u \in UserIds : DeleteUser(u)
     ]_vars

\* the socket of the cache store, reconnecting
ReconnectSpec ==
  /\ Init
  /\ [][
       \/ SocketError
       \/ \E succeeds \in BOOLEAN : Reconnect(succeeds)
     ]_vars

\* the client under every sequence of answers
ClientSpec ==
  /\ Init
  /\ [][
       \/ \E kind \in {"api", "refresh"}, stored \in BOOLEAN : Send(kind, stored)
       \/ \E renewed \in BOOLEAN, r \in {<<200, "">>, <<401, "TOKEN_EXPIRED">>, <<401, "SESSION_EXPIRED">>,
                    <<401, "NO_TOKEN">>, <<401, "INVALID_TOKEN">>,
                    <<403, "INSUFFICIENT_ROLE">>, <<500, "AUTH_SERVICE_ERROR">>} :
            Respond(r[1], r[2], renewed)
     ]_vars

\* clients logging in, over and over
LoginSpec ==
  /\ Init
  /\ [][
       \/ \E ip \in {"ip1", "ip2"} : PostLogin(ip)
       \/ RateTick
     ]_vars

\* the rate limiter over a cache store that comes and goes
RateSpec ==
  /\ Init
  /\ [][
       \/ \E i \in Procs, ip \in {"ip1", "ip2"} : RateLimit(i, ip)
       \/ RateTick
       \/ RedisError
       \/ RedisConnect
     ]_vars

\* the role helpers called on their own, from the state after start-up
RoleSpec ==
  /\ Init
  /\ [][
       \/ \E r2 \in UserRole, r1 \in UserRole : CheckRole(r2, r1)
       \/ \E r \in UserRole, perm \in Permission : CheckPermission(r, perm)
       \/ \E r \in UserRole, ps \in PermissionListsUpTo(MaxPermissions) :
            CheckAccess(r, ps)
     ]_vars

-----------------------------------------------------------------------------
(* Claims about the session registry (checked under SessionSpec) *)

\* the ids the index user_sessions:{userId} lists, none when the key is absent
IndexOf(userId) ==
  IF getUserSessionsKey(userId) \in DOMAIN redis
    THEN redis[getUserSessionsKey(userId)].val
    ELSE <<>>

SessionLive(sessionId) == getSessionKey(sessionId) \in DOMAIN redis

\* C1: every session id listed in an index user_sessions:{userId} has a live
\* record session:{id} in the cache store.
C1_IndexedSessionsLive ==
  \A u \in UserIds :
    \A i \in 1 .. Len(IndexOf(u)) : SessionLive(IndexOf(u)[i])

\* C2: when createSession has been called twice for a user, with the backend
\* up and no deletion or expiry since, getUserSessions for that user returns
\* exactly 2 records.
C2_TwoCreatesListTwo ==
  ( /\ ret.op = "getUserSessions"
    /\ ret.ready
    /\ ~disturbed
    /\ Cardinality(created[ret.userId]) = 2 )
  => Len(ret.sessions) = 2

\* C3: right after logoutAllDevices(user) has completed with the backend up,
\* getUserSessions(user) returns 0 records and no session:{id} record of a
\* session created for that user is left in the cache store.
C3_LogoutAllLeavesNothing ==
  ( /\ ret.op = "logoutAllDevices"
    /\ ret.ready )
  => /\ getUserSessions(redis, redisReady, ret.userId, now).value = <<>>
     /\ \A s \in created[ret.userId] : ~SessionLive(s)

-----------------------------------------------------------------------------
(* Claims about the gates (checked under Spec) *)

\* the request the last gate invocation served, and what it did
Req == out.req

X == out.x

\* a token the server minted as a refresh token and that has not expired
LiveRefreshToken(token) ==
  /\ token \in MintedTokens(now)
  /\ token.sig = REFRESH_SECRET
  /\ now < token.exp

\* a token the server minted as an access token
AuthenticAccessToken(token) ==
  /\ token \in MintedTokens(now)
  /\ token.sig = ACCESS_SECRET

\* the access token is authentic but past its expiry
AccessExpired(req) ==
  /\ AuthenticAccessToken(ExtractAccessToken(req))
  /\ now >= ExtractAccessToken(req).exp

\* the refresh token the request offers: the cookie's, else the body's
OfferedRefreshToken(req) ==
  IF Truthy(req.refreshCookie) THEN req.refreshCookie ELSE req.body.refreshToken

NewCredentials(x) ==
  {x.cookieAccess, x.cookieRefresh, x.headerAccess, x.headerRefresh}

\* C4: when the token in the access-token position (cookie, else bearer
\* header) is a validly signed, unexpired refresh token, authenticate attaches
\* no principal, does not call next and mints nothing.
C4_RefreshTokenNeverAuthorizes ==
  ( /\ out.gate = "authenticate"
    /\ LiveRefreshToken(ExtractAccessToken(Req)) )
  => /\ X.nexts = 0
     /\ X.userId = NoUserId
     /\ X.minted = 0
     /\ X.status = 401

\* a live refresh token in the access cookie, and again as the refresh cookie:
\* rejected as an invalid access token
C4_Witness ==
  /\ out.gate = "authenticate"
  /\ LiveRefreshToken(Req.accessCookie)
  /\ Req.refreshCookie = Req.accessCookie
  /\ X.code = "INVALID_TOKEN"

RefreshMustFail(req) ==
  \/ ~Truthy(OfferedRefreshToken(req))
  \/ OfferedRefreshToken(req).sig # REFRESH_SECRET
  \/ now >= OfferedRefreshToken(req).exp
  \/ /\ LiveRefreshToken(OfferedRefreshToken(req))
     /\ users[OfferedRefreshToken(req).userId] = NoUser

C7_SessionExpiredClearsCookies ==
  ( /\ out.gate = "authenticate"
    /\ X.code = "SESSION_EXPIRED" )
  => X.cleared = {"accessToken", "refreshToken"}

\* the access token is malformed, forged or signed with another key
AccessInvalid(req) ==
  /\ Truthy(ExtractAccessToken(req))
  /\ ExtractAccessToken(req).sig # ACCESS_SECRET

\* C8: an invalid access token gets 401 INVALID_TOKEN with no refresh
\* attempt: the refresh token is not verified, the user store not asked,
\* nothing minted, whatever refresh token the request carries.
C8_InvalidTokenIsNotRefreshed ==
  ( /\ out.gate = "authenticate"
    /\ AccessInvalid(Req) )
  => /\ X.status = 401
     /\ X.code = "INVALID_TOKEN"
     /\ X.sends = 1
     /\ X.nexts = 0
     /\ X.refreshAttempts = 0
     /\ X.refreshVerifies = 0
     /\ X.lookups = 0
     /\ X.minted = 0
     /\ NewCredentials(X) = {Undefined}

\* a forged access token beside a live refresh token of an existing principal
C8_Witness ==
  /\ out.gate = "authenticate"
  /\ ExtractAccessToken(Req) = Forged
  /\ LiveRefreshToken(OfferedRefreshToken(Req))
  /\ users[OfferedRefreshToken(Req).userId] # NoUser
  /\ out.db = "ok"
  /\ X.code = "INVALID_TOKEN"

\* C9: every invocation of authenticate, authorize, requireRole(r) and
\* requirePermissions(ps) lets no exception out and ends with exactly one of:
\* next called once, or one response sent (401, 403 or 500).
C9_ExactlyOneOutcome ==
  out.gate # "none"
  => /\ ~X.thrown
     /\ \/ X.nexts = 1 /\ X.sends = 0 /\ X.status = 0
        \/ X.nexts = 0 /\ X.sends = 1 /\ X.status \in {401, 403, 500}

\* the user-store lookup of requireRole raised: answered 500
C9_Witness ==
  /\ out.gate = "requireRole"
  /\ out.db = "down"
  /\ X.status = 500
  /\ X.sends = 1
  /\ X.nexts = 0

\* C10 as stated: exactly one lookup per refresh attempt, none for a request
\* whose access token is valid.
C10_OneLookupPerRefreshAttempt ==
  out.gate = "authenticate"
  => /\ X.lookups = X.refreshAttempts
     /\ verifyAccessToken(ExtractAccessToken(Req), now).ok => X.lookups = 0

\* C10 amended: authenticate asks the user store exactly once when it attempts
\* a refresh and the offered refresh token verifies, and not at all otherwise:
\* not when the refresh token is missing, invalid or expired, and not when the
\* access token is valid.
C10_LookupOnlyForVerifiedRefresh ==
  out.gate = "authenticate"
  => /\ X.refreshAttempts = (IF AccessExpired(Req) THEN 1 ELSE 0)
     /\ X.lookups = (IF /\ X.refreshAttempts = 1
                        /\ LiveRefreshToken(OfferedRefreshToken(Req))
                       THEN 1 ELSE 0)
     /\ verifyAccessToken(ExtractAccessToken(Req), now).ok => X.lookups = 0

\* a refresh attempt that asked the user store once and went through
C10_Witness ==
  /\ out.gate = "authenticate"
  /\ X.refreshAttempts = 1
  /\ X.lookups = 1
  /\ X.nexts = 1

\* the principal the Authentication Gate attached is in the user store
PrincipalExists(id) == id \in DOMAIN users /\ users[id] # NoUser

\* the attached principal exists and meets what the gate asks for: a rank at
\* least that of the required role, or every required permission
Entitled ==
  /\ PrincipalExists(out.attached)
  /\ IF out.gate = "requireRole"
        THEN ROLE_HIERARCHY[users[out.attached]] >= ROLE_HIERARCHY[out.requiredRole]
        ELSE \A i \in 1 .. Len(out.requiredPermissions) :
               out.requiredPermissions[i] \in ROLE_PERMISSIONS[users[out.attached]]

\* the code of the gate's 403 for a principal that falls short
InsufficientCode ==
  IF out.gate = "requireRole" THEN "INSUFFICIENT_ROLE" ELSE "INSUFFICIENT_PERMISSIONS"

\* C13 as stated: the handler behind requireRole(r) / requirePermissions(ps)
\* is reached only for an existing principal that is entitled; otherwise the
\* answer is 403 (INSUFFICIENT_ROLE / INSUFFICIENT_PERMISSIONS when an existing
\* principal falls short); with no principal id attached the handler is never
\* reached.
C13_NeverAllowsByDefault ==
  out.gate \in {"requireRole", "requirePermissions"}
  => /\ X.nexts > 0 => Entitled
     /\ ~Entitled => /\ X.nexts = 0
                     /\ X.status = 403
                     /\ PrincipalExists(out.attached) => X.code = InsufficientCode
     /\ out.attached = NoUserId => X.nexts = 0

\* C13 amended: as above, but a principal that is not entitled is answered
\* 403 only when the user-store lookup answers (USER_NOT_FOUND for a missing
\* principal, INSUFFICIENT_ROLE / INSUFFICIENT_PERMISSIONS for one that falls
\* short); when the lookup fails the answer is 500 AUTH_SERVICE_ERROR, for
\* every principal.  The handler is reached exactly when the lookup answers
\* and the principal is entitled.
C13_NeverAllowsByDefaultOr500 ==
  out.gate \in {"requireRole", "requirePermissions"}
  => /\ X.nexts > 0 => Entitled
     /\ (Entitled /\ out.db = "ok") => (X.nexts = 1 /\ X.sends = 0)
     /\ out.db # "ok" => /\ X.nexts = 0
                         /\ X.status = 500
                         /\ X.code = "AUTH_SERVICE_ERROR"
     /\ (~Entitled /\ out.db = "ok")
          => /\ X.nexts = 0
             /\ X.status = 403
             /\ X.code = (IF PrincipalExists(out.attached) THEN InsufficientCode
                                                          ELSE "USER_NOT_FOUND")
     /\ out.attached = NoUserId => X.nexts = 0

\* a moderator passes requirePermissions for two moderator permissions
C13_Witness ==
  /\ out.gate = "requirePermissions"
  /\ out.attached = "u1"
  /\ users["u1"] = "moderator"
  /\ out.requiredPermissions = <<"read_all_todos", "delete_any_todo">>
  /\ X.nexts = 1

\* C23: for a principal of any role, the legacy authorize answers as
\* requireRole(admin) does: next from one exactly when next from the other, and
\* a 403 from both otherwise.
C23_AuthorizeIsRequireAdmin ==
  (out.gate = "authorize" /\ out.db = "ok" /\ PrincipalExists(out.attached))
  => LET other == requireRole("admin", out.attached, users, out.db)
     IN  /\ (X.nexts = 1) <=> (other.nexts = 1)
         /\ X.nexts = 0 => (X.status = 403 /\ other.status = 403)

\* C25: a request with an accessToken cookie is decided as the same request
\* without its Authorization header; a request without the cookie is decided
\* on the header's token, as if that token had come in the cookie.
C25_CookieBeforeHeader ==
  out.gate = "authenticate"
  => IF Truthy(Req.accessCookie)
       THEN X = authenticate([Req EXCEPT !.authorization = NoHeader],
                             users, out.db, now)
       ELSE X = authenticate([Req EXCEPT !.accessCookie = Req.authorization.token,
                                         !.authorization = NoHeader],
                             users, out.db, now)

\* a malformed cookie beside a valid bearer token: turned away on the cookie
C25_Witness ==
  /\ out.gate = "authenticate"
  /\ Req.accessCookie = Malformed
  /\ Req.authorization = Bearer(generateAccessToken([userId |-> "u1"], 0))
  /\ now < AccessLifetime
  /\ X.status = 401
  /\ X.code = "INVALID_TOKEN"
  /\ X.nexts = 0

\* C28: when authenticate succeeds through the refresh path, the principal it
\* attaches and the subject of the pair it mints is the subject of the expired
\* access token and of the refresh token the request presented.
C28_RefreshKeepsThePrincipal ==
  ( /\ out.gate = "authenticate"
    /\ X.nexts = 1
    /\ Undefined \notin NewCredentials(X) )
  => /\ X.userId = ExtractAccessToken(Req).userId
     /\ X.userId = OfferedRefreshToken(Req).userId
     /\ \A token \in NewCredentials(X) : token.userId = X.userId

-----------------------------------------------------------------------------
(* Claims about the gate beside the session registry (checked under          *)
(* RegistrySpec)                                                             *)

-----------------------------------------------------------------------------
(* Claims about requests in flight at once (checked under RaceSpec) *)

P(i) == inflight.p[i]

\* a request with cookies only
CookieRequest(accessCookie, refreshCookie) ==
  [accessCookie |-> accessCookie, authorization |-> NoHeader,
   refreshCookie |-> refreshCookie, body |-> EmptyBody]

\* both requests are over
BothDone == inflight # NoRace /\ \A i \in Procs : P(i).pc = "done"

\* the refresh token the pair of requests carries was valid when request i
\* arrived (their access token had expired by then)
ArrivedWithValidRefresh(i) ==
  LET token == OfferedRefreshToken(inflight.req)
  IN  /\ token.sig = REFRESH_SECRET
      /\ token.iat <= P(i).at
      /\ P(i).at < token.exp
      /\ P(i).at >= inflight.req.accessCookie.exp

\* request i was let through with a pair of its own: minted for the subject of
\* the refresh token while the request was in flight, in both cookies, and in
\* the X-New-* headers (authenticate) or the response body (POST /refresh)
GotOwnPair(i) ==
  LET x == P(i).x
      m == x.cookieAccess.iat
  IN  /\ P(i).at <= m /\ m <= now
      /\ x.cookieAccess = generateAccessToken([userId |-> P(i).subject], m)
      /\ x.cookieRefresh = generateRefreshToken([userId |-> P(i).subject], m)
      /\ x.minted = 1
      /\ IF P(i).route = "authenticate"
            THEN /\ x.nexts = 1 /\ x.sends = 0
                 /\ x.userId = P(i).subject
                 /\ x.headerAccess = x.cookieAccess
                 /\ x.headerRefresh = x.cookieRefresh
            ELSE /\ x.status = 200 /\ x.sends = 1
                 /\ x.dataAccess = x.cookieAccess
                 /\ x.dataRefresh = x.cookieRefresh

\* request i was turned away with nothing minted and no credential
TurnedAway(i) ==
  LET x == P(i).x
  IN  /\ x.nexts = 0 /\ x.sends = 1 /\ x.minted = 0
      /\ x.status \in {401, 404, 500}
      /\ NewCredentials(x) = {Undefined}
      /\ x.dataAccess = Undefined /\ x.dataRefresh = Undefined

\* a refresh token is still good for both routes, for a principal that exists
\* and a user store that answers, until it expires
RefreshTokenStillAccepted(token) ==
  (now < token.exp /\ users[token.userId] # NoUser)
  => /\ refreshToken(CookieRequest(Undefined, token), users, "ok", now).status = 200
     /\ authenticate(CookieRequest(inflight.req.accessCookie, token),
                     users, "ok", now).nexts = 1

\* an access token is still good until it expires
AccessTokenStillAccepted(token) ==
  now < token.exp
  => authenticate(CookieRequest(token, Undefined), users, "down", now).nexts = 1

-----------------------------------------------------------------------------
(* Claims about the role helpers (checked under RoleSpec) *)

\* rank: user < moderator < admin < super_admin
Rank(role) ==
  CHOOSE k \in 1 .. 4 : <<"user", "moderator", "admin", "super_admin">>[k] = role

\* C14: hasRole(r2, r1) is rank(r2) >= rank(r1); a permission a role has,
\* every role of equal or higher rank has too; so a permission list a role can
\* access, every role of equal or higher rank can access.
C14_RoleMonotonicity ==
  /\ probe.fn = "hasRole"
       => probe.result = (Rank(probe.userRole) >= Rank(probe.requiredRole))
  /\ (probe.fn = "hasPermission" /\ probe.result)
       => \A r2 \in UserRole :
            Rank(r2) >= Rank(probe.userRole) => hasPermission(r2, probe.permission)
  /\ (probe.fn = "canAccessResource" /\ probe.result)
       => \A r2 \in UserRole :
            Rank(r2) >= Rank(probe.userRole)
              => canAccessResource(r2, probe.requiredPermissions)

\* a moderator can access a list of one user and one moderator permission,
\* which a user cannot
C14_Witness ==
  /\ probe.fn = "canAccessResource"
  /\ probe.userRole = "moderator"
  /\ probe.requiredPermissions = <<"create_todo", "moderate_content">>
  /\ probe.result
  /\ ~canAccessResource("user", probe.requiredPermissions)

-----------------------------------------------------------------------------
(* Claims about the rate limiter (checked under RateSpec) *)

\* C16: when RedisService.increment raises while a request is being counted,
\* the request is answered with a 500 by the top-level error handler and does
\* not reach its handler uncounted.
C16_IncrementFailureIsNotSwallowed ==
  (out.gate = "rateLimit" /\ out.raised)
  => /\ X.status = 500
     /\ X.sends = 1
     /\ X.nexts = 0

\* C21: as long as the cache store has been available, of the requests of one
\* client counted in a window (the 900 s after the first counted one) at most
\* maxRequests reach the handler, the counter lives through the whole window,
\* and a request counted beyond maxRequests is answered 429 RATE_LIMIT_ERROR
\* without reaching the handler, however the two requests interleave.
C21_AtMostNPerWindow ==
  (probe.fn = "window" /\ ~disturbed)
  => /\ \A ip \in {"ip1", "ip2"} :
          /\ probe.passed[ip] <= AuthLimiter.maxRequests
          /\ (probe.first[ip] # Never
              /\ now < probe.first[ip] + AuthLimiter.windowMs \div 1000)
               => rateLimitKey(ip) \in DOMAIN redis
     /\ (out.gate = "rateLimit" /\ out.count > AuthLimiter.maxRequests)
          => /\ X.status = 429
             /\ X.code = "RATE_LIMIT_ERROR"
             /\ X.sends = 1
             /\ X.nexts = 0

\* five requests of ip1 have reached the handler in the window and the sixth,
\* counted while the window still runs, was turned away
C21_Witness ==
  /\ probe.fn = "window"
  /\ ~disturbed
  /\ probe.passed["ip1"] = AuthLimiter.maxRequests
  /\ now < probe.first["ip1"] + AuthLimiter.windowMs \div 1000
  /\ out.gate = "rateLimit"
  /\ out.ip = "ip1"
  /\ out.count = AuthLimiter.maxRequests + 1
  /\ X.status = 429

\* C22: of the POST /login requests of one client ip, at most 5 within 15
\* minutes reach the login handler.
C22_LoginAttemptsLimited ==
  probe.fn = "login"
  => \A ip \in {"ip1", "ip2"} : probe.attempts[ip] <= AuthLimiter.maxRequests

\* C30: every rate_limit key in the store carries a time to live, unless the
\* increment that created it is still between its INCR and its EXPIRE; so a
\* counter always runs out one window after its first increment.
C30_CountersAlwaysExpire ==
  \A ip \in {"ip1", "ip2"} :
    (rateLimitKey(ip) \in DOMAIN redis /\ redis[rateLimitKey(ip)].exp = Never)
    => IF inflight = NoRace THEN FALSE
       ELSE \E i \in Procs : /\ inflight.p[i].pc = "expire"
                             /\ inflight.p[i].ip = ip

-----------------------------------------------------------------------------
(* Claims about the cache store (checked under CacheSpec) *)

\* C17: right after a successful set(k, v), get(k) returns a value equal to
\* v, for strings (the empty string and JSON-looking strings among them),
\* numbers and objects; get of a key that is not in the store returns null.
C17_CacheRoundTrip ==
  /\ (probe.fn = "set" /\ probe.ok) => get(redis, TRUE, probe.key) = probe.value
  /\ \A k \in CacheKeys : k \notin DOMAIN redis => get(redis, redisReady, k) = JsNull

-----------------------------------------------------------------------------
(* Claims about the token codec (checked under TokenSpec) *)

\* the token presented to the verifier is one the server signed for that
\* verifier
AuthenticFor(verifier, token) ==
  token.sig = (IF verifier = "access" THEN ACCESS_SECRET ELSE REFRESH_SECRET)

\* 15 minutes and 7 days, in seconds
LifetimeOf(verifier) == IF verifier = "access" THEN 15 * 60 ELSE 7 * 24 * 60 * 60

\* C18: a token minted at T is accepted by its verifier at every t with
\* T <= t < T + lifetime and fails with TokenExpiredError at every t after
\* T + lifetime (15 minutes for access, 7 days for refresh tokens); an
\* authentic token is never reported as invalid, a token with a bad signature
\* never as expired.
C18_ExpiryBoundary ==
  probe.fn = "verify"
  => LET token == probe.presented
         T == token.iat
         L == LifetimeOf(probe.verifier)
     IN  IF AuthenticFor(probe.verifier, token)
           THEN /\ (T <= probe.at /\ probe.at < T + L)
                     => /\ probe.result.ok
                        /\ probe.result.userId = token.userId
                /\ probe.at > T + L
                     => /\ ~probe.result.ok
                        /\ probe.result.name = "TokenExpiredError"
                /\ ~probe.result.ok => probe.result.name = "TokenExpiredError"
           ELSE /\ ~probe.result.ok
                /\ probe.result.name = "JsonWebTokenError"

\* an access token minted at 7 is verified one second before it has lived 15
\* minutes, and accepted
C18_Witness ==
  /\ probe.fn = "verify"
  /\ probe.verifier = "access"
  /\ AuthenticFor("access", probe.presented)
  /\ probe.presented.iat = 7
  /\ probe.at = 7 + 15 * 60 - 1
  /\ probe.result.ok

-----------------------------------------------------------------------------
(* Claims about POST /refresh (checked under RefreshSpec) *)

\* C19: POST /refresh with no refresh token, an invalid one, an expired one,
\* or a valid one whose principal is gone is answered 401, with nothing minted
\* and no cookie set (the user store answering).
C19_RefreshFailuresAre401 ==
  ( /\ out.gate = "refreshToken"
    /\ RefreshMustFail(Req)
    /\ out.db = "ok" )
  => /\ X.status = 401
     /\ X.sends = 1
     /\ X.minted = 0
     /\ X.cookieAccess = Undefined
     /\ X.cookieRefresh = Undefined

-----------------------------------------------------------------------------
(* Claims about reconnection (checked under ReconnectSpec) *)

\* C20: the delays of one outage grow exponentially (each delay below the cap
\* is the one before it times a constant factor greater than 1), none exceeds
\* 3000 ms, and the strategy gives up once it has been asked more than 10
\* times, so the delays of one outage are finitely many.
C20_BoundedExponentialBackoff ==
  probe.fn = "reconnect"
  => /\ \A k \in 1 .. Len(probe.delays) : probe.delays[k] <= 3000
     /\ \A k \in 2 .. (Len(probe.delays) - 1) :
          \/ probe.delays[k + 1] = 3000
          \/ /\ probe.delays[k + 1] > probe.delays[k]
             /\ probe.delays[k] * probe.delays[k] =
                  probe.delays[k - 1] * probe.delays[k + 1]
     /\ Len(probe.delays) <= 11
     /\ probe.stopped => probe.retries > 10

-----------------------------------------------------------------------------
(* Claims about the client (checked under ClientSpec) *)

-----------------------------------------------------------------------------
(* Claims about the calls of SessionService in flight together (checked under *)
(* SessionRaceSpec)                                                           *)

\* no call of SessionService is in flight
Quiet == inflight # NoRace /\ \A i \in Procs : inflight.p[i].op = "idle"

\* C26: once no call is in flight any more, no session:{id} record exists of a
\* session that deleteSession or logoutAllDevices has deleted: a read followed
\* by the write-back never brings a deleted session back.
C26_DeletionIsFinal ==
  Quiet => \A id \in probe.deleted : getSessionKey(id) \notin DOMAIN redis

\* C27: once no call is in flight, every session:{id} record in the store is
\* listed in user_sessions:{userId} of its owner.
C27_NoOrphanSessions ==
  Quiet =>
    \A id \in SessionIds :
      getSessionKey(id) \in DOMAIN redis =>
        LET userSessionsKey == getUserSessionsKey(redis[getSessionKey(id)].val.userId)
        IN  /\ userSessionsKey \in DOMAIN redis
            /\ \E k \in 1..Len(redis[userSessionsKey].val) :
                 redis[userSessionsKey].val[k] = id

-----------------------------------------------------------------------------
(* Claims about the todo cache (checked under TodoSpec) *)

\* C29: a getAll that began after a createTdo, updateTodo or deleteTodo had
\* completed successfully, with no such request running beside it, answers with
\* exactly the user's todos in the database.
C29_TodoCacheCoherent ==
  (out.gate = "getAll" /\ out.strict) => out.data = out.todos

=============================================================================
